---- MODULE Spec2Model ----
(***************************************************************************)
(* Batch orchestration of the smart-summary-insight service: the sliding-  *)
(* window RateLimiter, the CacheService, the BatchJobStore with its        *)
(* memory / file / sqlite persistence, the batch dispatcher                *)
(* (_process_batch / _process_one_record) and the synchronous /analyze     *)
(* handler.                                                                *)
(*                                                                         *)
(* Optional values (Python None or a value) are sequences of length 0 or 1.*)
(* Time is an integer number of seconds; one clock stands for both         *)
(* time.monotonic() and datetime.now().                                    *)
(***************************************************************************)
EXTENDS Integers, Sequences, FiniteSets, TLC

\* ------------------------------------------------------------------ bounds
NumRecords == 2
MaxTime == 90
TickStep == 30
MaxWriteFailures == 1
MaxAnalyzeCalls == 2
MaxJobs == 2
MaxStoreJobs == 1
MaxAppends == 2
MaxCacheEntries == 2
MaxAcquireCalls == 2
MaxThreadCalls == 2

\* ------------------------------------------------------- program constants
window_seconds == 60
batch_record_retry_count == 1

\* batch_list_jobs(limit: int = 50)
list_limit == 50

None == <<>>
Some(x) == <<x>>
IsNone(o) == o = <<>>
IsSome(o) == o # <<>>
Val(o) == o[1]

Max(a, b) == IF a >= b THEN a ELSE b

JobIds == 1..MaxJobs
RecIdx == 1..NumRecords

\* the configuration values considered
RpmChoices == {0, 2}
ConcurrencyChoices == {1, 2}
BackendChoices == {"memory", "file", "sqlite"}

\* ---------------------------------------------------------------- requests
\* structured_data: None or Some(dict), a dict being the sequence of its items
\* [key, value] in insertion order, a value being [kind |-> "str", v |-> ...] or
\* [kind |-> "dict", items |-> ...]; notes: the validated list.
ReqEmpty == [structured_data |-> None, notes |-> <<>>]
ReqAB == [structured_data |-> None, notes |-> <<"a", "b">>]
ReqBA == [structured_data |-> Some(<<>>), notes |-> <<"b", "a">>]
RequestSet == {ReqEmpty, ReqAB, ReqBA}

NoteRank(s) == CASE s = "a" -> 1 [] s = "b" -> 2 [] OTHER -> 3

RECURSIVE Insert(_, _)
Insert(x, s) ==
    IF s = <<>> THEN <<x>>
    ELSE IF NoteRank(x) <= NoteRank(Head(s)) THEN <<x>> \o s
    ELSE <<Head(s)>> \o Insert(x, Tail(s))

RECURSIVE Sorted(_)
Sorted(s) == IF s = <<>> THEN <<>> ELSE Insert(Head(s), Sorted(Tail(s)))

\* ------------------------------------------------------------- LLM results
Datetime(t) == <<"datetime", t>>
IsDatetime(x) == x[1] = "datetime"
\* What the LLM collaborator answers is a function of the request it is given:
\* usage is reported (7 tokens) for some requests and absent for others.
UsageOf(req) == IF IsNone(req.structured_data) THEN Some(7) ELSE None

\* AIService._build_response: metadata.timestamp is a datetime in every response
AnalyzeResponse(req) ==
    [summary |-> req.notes, tokens_used |-> UsageOf(req), timestamp |-> Datetime(0)]

\* AnalyzeResponse.model_dump(): a dict in python mode, the datetime kept
model_dump(resp) ==
    [summary |-> resp.summary, tokens_used |-> resp.tokens_used,
     timestamp |-> resp.timestamp]

\* json.dumps / json.dump raise TypeError on a datetime
JsonSerializable(d) == ~IsDatetime(d.timestamp)

VARIABLES
    clock,          \* seconds
    rpmConf,        \* settings.claude_requests_per_minute
    concurrency,    \* settings.batch_max_concurrent_llm_calls
    backend,        \* settings.batch_persistence_backend
    cacheEnabled,   \* settings.enable_cache
    timestamps,     \* RateLimiter._timestamps
    cache,          \* CacheService.cache: set of [key, value]
    jobs,           \* BatchJobStore._jobs: job id -> None or Some(job)
    disk,           \* the backing medium: job id -> None or Some(document)
    writeFailures,  \* number of writes the medium has refused
    records,        \* the records of the submitted batch
    jobId,          \* the job of the batch: None before create_job
    dpc,            \* where batch_analyze / _process_batch stands
    gatherExc,      \* the first exception a record task raised into gather
    sem,            \* value of the batch's asyncio.Semaphore
    pc,             \* where each record task stands
    wake,           \* when each sleeping record task wakes
    attempt,        \* the retry loop's attempt number of each record
    lastError,      \* last_error of each record
    llmLog,         \* the LLM invocations: [at, limited, path, rec, n, outcome]
    analyzeCalls,   \* /analyze requests served so far
    restarted,      \* the process has been restarted
    returned,       \* what the calls observed from outside have returned
    before,         \* the jobs the process held in memory when it stopped
    held            \* what the store call of each thread holds in its locals

vars == <<clock, rpmConf, concurrency, backend, cacheEnabled, timestamps, cache,
          jobs, disk, writeFailures, records, jobId, dpc, gatherExc, sem, pc,
          attempt, lastError, wake, llmLog, analyzeCalls, restarted, returned, before,
          held>>

configVars == <<rpmConf, concurrency, backend, cacheEnabled, records>>
limiterVars == <<timestamps>>
storeVars == <<jobs, disk, writeFailures>>
batchVars == <<jobId, dpc, gatherExc, sem, pc, attempt, lastError, wake>>
analyzeVars == <<analyzeCalls>>
observedVars == <<returned, before>>
threadVars == <<held>>

\* ------------------------------------------------------------ RateLimiter
\* RateLimiter.__init__: self._rpm = max(1, requests_per_minute)
Rpm == Max(1, rpmConf)

\* while self._timestamps and self._timestamps[0] < now - window: popleft()
PurgeCondOpen(ts, now) == ts <= now - window_seconds

PurgeCondNever(ts, now) == FALSE

PurgeCond(ts, now) == ts < now - window_seconds

RECURSIVE Purge(_, _)
Purge(ts, now) ==
    IF ts # <<>> /\ PurgeCond(Head(ts), now) THEN Purge(Tail(ts), now) ELSE ts

HasSlotOneMore(ts) == Len(ts) <= Rpm

\* if len(self._timestamps) < self._rpm
HasSlot(ts) == Len(ts) < Rpm

\* sleep_until = self._timestamps[0] + self._window_seconds - now
SleepUntil(ts, now) == Head(ts) + window_seconds - now

\* ----------------------------------------------------------- CacheService
\* json.dumps(..., sort_keys=True) of {"structured_data": sd or {}, "notes": sorted(notes)}
DictOr(sd) == IF IsNone(sd) \/ Val(sd) = <<>> THEN <<>> ELSE Val(sd)

\* the order of str keys
KeyRank(k) == CASE k = "p" -> 1 [] k = "q" -> 2 [] k = "x" -> 3 [] k = "y" -> 4 [] OTHER -> 5

\* sort_keys=True: the items of every dict, at every depth, are written in the
\* order of their keys
RECURSIVE SortKeys(_)
RECURSIVE InsertItem(_, _)
InsertItem(it, s) ==
    IF s = <<>> THEN <<it>>
    ELSE IF KeyRank(it.key) <= KeyRank(Head(s).key) THEN <<it>> \o s
    ELSE <<Head(s)>> \o InsertItem(it, Tail(s))

JsonDumpsSorted(v) ==
    IF v.kind = "dict" THEN [kind |-> "dict", items |-> SortKeys(v.items)] ELSE v

SortKeys(items) ==
    IF items = <<>> THEN <<>>
    ELSE InsertItem([key |-> Head(items).key, value |-> JsonDumpsSorted(Head(items).value)],
                    SortKeys(Tail(items)))

GenerateKeyInsertionOrder(sd, notes) ==
    [structured_data |-> DictOr(sd), notes |-> Sorted(notes)]

\* the sha256 of the json text stands for the text: no two texts of a run collide
GenerateKey(sd, notes) ==
    [structured_data |-> SortKeys(DictOr(sd)), notes |-> Sorted(notes)]

CacheGetMiss(sd, notes) == None

\* An entry lives settings.cache_ttl_seconds (3600 s), longer than the horizon
\* MaxTime of a run, and the cache holds far fewer than maxsize = 1000 entries:
\* within a run no entry expires or is evicted.
CacheGet(sd, notes) ==
    IF ~cacheEnabled THEN None
    ELSE LET hits == {e \in cache : e.key = GenerateKey(sd, notes)}
         IN IF hits = {} THEN None ELSE Some((CHOOSE e \in hits : TRUE).value)

CacheSetAlways(sd, notes, value) ==
    {e \in cache : e.key # GenerateKey(sd, notes)}
    \cup {[key |-> GenerateKey(sd, notes), value |-> value]}

CacheSet(sd, notes, value) ==
    IF ~cacheEnabled THEN cache
    ELSE {e \in cache : e.key # GenerateKey(sd, notes)}
         \cup {[key |-> GenerateKey(sd, notes), value |-> value]}

CacheFillAlways(ok, req, response) ==
    CacheSet(req.structured_data, req.notes, response)

\* the cache after an LLM call made for req: cache_service.set follows
\* ai_service.analyze in the try, so a call that raised skips it
CacheFill(ok, req, response) ==
    IF ok THEN CacheSet(req.structured_data, req.notes, response) ELSE cache

\* ---------------------------------------------------------- BatchJobStore
\* BatchJobStatus: the enum member in memory, its value on the medium
StatusValue(st) ==
    CASE st = "ACCEPTED" -> "accepted"
      [] st = "PROCESSING" -> "processing"
      [] st = "COMPLETED" -> "completed"
      [] st = "FAILED" -> "failed"
      [] OTHER -> st

\* BatchJobStatus(status_val), ValueError -> BatchJobStatus.COMPLETED
StatusFromValue(v) ==
    CASE v = "accepted" -> "ACCEPTED"
      [] v = "processing" -> "PROCESSING"
      [] v = "failed" -> "FAILED"
      [] OTHER -> "COMPLETED"

serialize_datetime(dt) == IF IsNone(dt) THEN None ELSE Some(<<"iso", Val(dt)[2]>>)
deserialize_datetime(s) == IF IsNone(s) THEN None ELSE Some(Datetime(Val(s)[2]))

BatchRecordResult(index, success, response, error) ==
    [index |-> index, success |-> success, response |-> response, error |-> error]

\* AnalyzeResponse(**d): the timestamp parsed back into a datetime
ParseResponse(d) ==
    [summary |-> d.summary, tokens_used |-> d.tokens_used,
     timestamp |-> Datetime(d.timestamp[2])]

serialize_result(r) ==
    [index |-> r.index, success |-> r.success,
     response |-> IF IsSome(r.response) THEN Some(model_dump(Val(r.response))) ELSE None,
     error |-> r.error]

deserialize_result(d) ==
    BatchRecordResult(d.index, d.success,
                      IF IsSome(d.response) THEN Some(ParseResponse(Val(d.response))) ELSE None,
                      d.error)

NewJob(id, total, now) ==
    [job_id |-> id, status |-> "ACCEPTED", total_records |-> total,
     completed_count |-> 0, failed_count |-> 0, total_tokens_used |-> 0,
     results |-> <<>>, created_at |-> Some(Datetime(now)),
     updated_at |-> Some(Datetime(now)), failure_message |-> None]

\* what json.dump / json.dumps must encode: every response's model_dump()
JobSerializable(job) ==
    \A k \in DOMAIN job.results :
        IsNone(job.results[k].response)
        \/ JsonSerializable(model_dump(Val(job.results[k].response)))

\* _persist, file backend: the JSON document <job_id>.json
FileDoc(job) ==
    [job_id |-> job.job_id, status |-> StatusValue(job.status),
     total_records |-> job.total_records, completed_count |-> job.completed_count,
     failed_count |-> job.failed_count, total_tokens_used |-> job.total_tokens_used,
     results |-> [k \in DOMAIN job.results |-> serialize_result(job.results[k])],
     created_at |-> serialize_datetime(job.created_at),
     updated_at |-> serialize_datetime(job.updated_at)]

\* _persist_sqlite: the batch_jobs row and the batch_results rows, in rowid order
SqliteRows(job) ==
    [job_id |-> job.job_id, status |-> StatusValue(job.status),
     total_records |-> job.total_records, completed_count |-> job.completed_count,
     failed_count |-> job.failed_count, total_tokens_used |-> job.total_tokens_used,
     results |-> [k \in DOMAIN job.results |->
                    [record_index |-> job.results[k].index,
                     success |-> IF job.results[k].success THEN 1 ELSE 0,
                     response_json |-> IF IsSome(job.results[k].response)
                                       THEN Some(model_dump(Val(job.results[k].response)))
                                       ELSE None,
                     error |-> job.results[k].error]],
     created_at |-> serialize_datetime(job.created_at),
     updated_at |-> serialize_datetime(job.updated_at)]

\* _persist raises: the medium refuses the write (OSError, sqlite3.Error), or
\* json.dump / json.dumps meets a response it cannot encode (TypeError)
PersistRaises(job, fail) ==
    backend # "memory" /\ (fail \/ ~JobSerializable(job))

PersistError(job, fail) == IF fail THEN "OSError" ELSE "TypeError"

\* the medium after _persist(job_id).  file: open(path, "w") truncates, then
\* json.dump writes until it raises, leaving a document that does not parse.
\* sqlite: json.dumps raises before conn.commit(), the transaction is dropped.
PersistTo(dk, id, job, fail) ==
    CASE backend = "memory" -> dk
      [] backend # "memory" /\ fail -> dk
      [] backend = "file" /\ ~fail ->
            [dk EXCEPT ![id] =
                Some(IF JobSerializable(job)
                     THEN [ok |-> TRUE, doc |-> Some(FileDoc(job))]
                     ELSE [ok |-> FALSE, doc |-> None])]
      [] OTHER ->
            IF JobSerializable(job)
            THEN [dk EXCEPT ![id] = Some([ok |-> TRUE, doc |-> Some(SqliteRows(job))])]
            ELSE dk

RECURSIVE InsertRow(_, _)
InsertRow(x, s) ==
    IF s = <<>> THEN <<x>>
    ELSE IF x.record_index <= Head(s).record_index THEN <<x>> \o s
    ELSE <<Head(s)>> \o InsertRow(x, Tail(s))

\* ORDER BY record_index (rows of one index stay in rowid order)
RECURSIVE OrderByRecordIndex(_)
OrderByRecordIndex(rows) ==
    IF rows = <<>> THEN <<>>
    ELSE InsertRow(Head(rows), OrderByRecordIndex(Tail(rows)))

SqliteResult(r) ==
    BatchRecordResult(r.record_index, r.success # 0,
                      IF r.success # 0 /\ IsSome(r.response_json)
                      THEN Some(ParseResponse(Val(r.response_json))) ELSE None,
                      r.error)

load_from_sqlite(dk, id) ==
    IF backend # "sqlite" \/ IsNone(dk[id]) THEN None
    ELSE LET row == Val(Val(dk[id]).doc)
             rows == OrderByRecordIndex(row.results)
         IN Some([job_id |-> id, status |-> StatusFromValue(row.status),
                  total_records |-> row.total_records,
                  completed_count |-> row.completed_count,
                  failed_count |-> row.failed_count,
                  total_tokens_used |-> row.total_tokens_used,
                  results |-> [k \in DOMAIN rows |-> SqliteResult(rows[k])],
                  created_at |-> deserialize_datetime(row.created_at),
                  updated_at |-> deserialize_datetime(row.updated_at),
                  failure_message |-> None])

load_from_file(dk, id) ==
    IF backend # "file" \/ IsNone(dk[id]) THEN None
    ELSE IF ~Val(dk[id]).ok THEN None
    ELSE LET data == Val(Val(dk[id]).doc)
         IN Some([job_id |-> id, status |-> StatusFromValue(data.status),
                  total_records |-> data.total_records,
                  completed_count |-> data.completed_count,
                  failed_count |-> data.failed_count,
                  total_tokens_used |-> data.total_tokens_used,
                  results |-> [k \in DOMAIN data.results |->
                                  deserialize_result(data.results[k])],
                  created_at |-> deserialize_datetime(data.created_at),
                  updated_at |-> deserialize_datetime(data.updated_at),
                  failure_message |-> None])

Load(dk, id) ==
    IF backend = "sqlite" THEN load_from_sqlite(dk, id) ELSE load_from_file(dk, id)

\* the in-memory part of each mutating operation (the part under self._lock)
SetProcessingMem(job, now) ==
    [job EXCEPT !.status = "PROCESSING", !.updated_at = Some(Datetime(now))]

AppendResultMemNoCount(job, index, success, response, error, tokens_used, now) ==
    [job EXCEPT
        !.results = Append(@, BatchRecordResult(index, success, response, error)),
        !.updated_at = Some(Datetime(now))]

AppendResultMem(job, index, success, response, error, tokens_used, now) ==
    [job EXCEPT
        !.results = Append(@, BatchRecordResult(index, success, response, error)),
        !.completed_count = IF success THEN @ + 1 ELSE @,
        !.total_tokens_used =
            IF success /\ IsSome(tokens_used) THEN @ + Val(tokens_used) ELSE @,
        !.failed_count = IF success THEN @ ELSE @ + 1,
        !.updated_at = Some(Datetime(now))]

SetJobCompletedMem(job, now) ==
    [job EXCEPT !.status = "COMPLETED", !.updated_at = Some(Datetime(now))]

SetJobFailedMemNoStatus(job, message, now) ==
    [job EXCEPT !.updated_at = Some(Datetime(now)),
                !.failure_message =
                    IF IsSome(message) /\ Val(message) # "" THEN message ELSE @]

SetJobFailedMem(job, message, now) ==
    [job EXCEPT !.status = "FAILED", !.updated_at = Some(Datetime(now)),
                !.failure_message =
                    IF IsSome(message) /\ Val(message) # "" THEN message ELSE @]

\* The store and its medium as one value st = [jobs, disk, wf].  An operation
\* yields [st, raised, found]: the state it leaves, the exception it raised
\* (None when it returned) and whether it knew the job.
Store == [jobs |-> jobs, disk |-> disk, wf |-> writeFailures]

SetStore(st) ==
    /\ jobs' = st.jobs
    /\ disk' = st.disk
    /\ writeFailures' = st.wf

\* whether the medium refuses the next write
FailChoices(st) ==
    IF backend # "memory" /\ st.wf < MaxWriteFailures THEN {FALSE, TRUE} ELSE {FALSE}

\* self._persist(job_id), after the mutation and outside the lock
Persist(st, id, fail) ==
    LET job == Val(st.jobs[id])
    IN [st |-> [st EXCEPT !.disk = PersistTo(@, id, job, fail),
                          !.wf = @ + (IF fail THEN 1 ELSE 0)],
        raised |-> IF PersistRaises(job, fail) THEN Some(PersistError(job, fail)) ELSE None,
        found |-> TRUE]

NotFoundButTrue(st) == [st |-> st, raised |-> None, found |-> TRUE]

\* "if job_id not in self._jobs: return False"
NotFound(st) == [st |-> st, raised |-> None, found |-> FALSE]

\* create_job: a fresh uuid4, here the least id neither in memory nor on the medium
IsFresh(st, j) == IsNone(st.jobs[j]) /\ IsNone(st.disk[j])

HasFreshId(st) == \E j \in JobIds : IsFresh(st, j)

FreshId(st) == CHOOSE j \in JobIds : IsFresh(st, j) /\ \A k \in JobIds : IsFresh(st, k) => j <= k

create_job(st, total_records, now, fail) ==
    LET id == FreshId(st)
        r == Persist([st EXCEPT !.jobs[id] = Some(NewJob(id, total_records, now))], id, fail)
    IN [st |-> r.st, raised |-> r.raised, id |-> id]

\* get_job: the job in memory, else the one loaded from the medium (and kept)
get_job(st, id) ==
    IF IsSome(st.jobs[id]) THEN [st |-> st, job |-> st.jobs[id]]
    ELSE LET loaded == Load(st.disk, id)
         IN IF IsSome(loaded)
            THEN [st |-> [st EXCEPT !.jobs[id] = loaded], job |-> loaded]
            ELSE [st |-> st, job |-> None]

set_processing(st, id, now, fail) ==
    IF IsNone(st.jobs[id]) THEN NotFound(st)
    ELSE Persist([st EXCEPT !.jobs[id] = Some(SetProcessingMem(Val(@), now))], id, fail)

append_result(st, id, index, success, response, error, tokens_used, now, fail) ==
    IF IsNone(st.jobs[id]) THEN NotFound(st)
    ELSE Persist([st EXCEPT !.jobs[id] =
                     Some(AppendResultMem(Val(@), index, success, response, error,
                                          tokens_used, now))], id, fail)

set_job_completed(st, id, now, fail) ==
    IF IsNone(st.jobs[id]) THEN NotFound(st)
    ELSE Persist([st EXCEPT !.jobs[id] = Some(SetJobCompletedMem(Val(@), now))], id, fail)

set_job_failed(st, id, message, now, fail) ==
    IF IsNone(st.jobs[id]) THEN NotFound(st)
    ELSE Persist([st EXCEPT !.jobs[id] = Some(SetJobFailedMem(Val(@), message, now))], id, fail)

\* round(done / total * 100.0, 2), in hundredths of a percent
ProgressPercent(done, total) ==
    IF total # 0 THEN (done * 20000 + total) \div (2 * total) ELSE 0

\* get_status_response: the dict built from get_job's job (None: unknown job);
\* estimated_cost is None, no cost per token being configured
StatusView(job) ==
    [job_id |-> job.job_id, status |-> job.status,
     total_records |-> job.total_records,
     completed_count |-> job.completed_count, failed_count |-> job.failed_count,
     progress_percent |-> ProgressPercent(job.completed_count + job.failed_count,
                                          job.total_records),
     total_tokens_used |-> job.total_tokens_used,
     estimated_cost |-> None,
     results |-> IF job.results # <<>> THEN Some(job.results) ELSE None,
     created_at |-> job.created_at, updated_at |-> job.updated_at]

get_status_response(st, id) ==
    LET g == get_job(st, id)
    IN [st |-> g.st, view |-> IF IsSome(g.job) THEN Some(StatusView(Val(g.job))) ELSE None]

\* BatchStatusResponse(**data): progress_percent is a Field(ge=0, le=100), a
\* value outside raises ValidationError
ValidStatusResponse(view) ==
    view.progress_percent >= 0 /\ view.progress_percent <= 10000

\* GET /batch/{job_id}/status: 404 for a job get_status_response does not find,
\* 500 when the response model rejects the dict, else 200 and the view
batch_status(st, id) ==
    LET r == get_status_response(st, id)
        code == IF IsNone(r.view) THEN 404
                ELSE IF ValidStatusResponse(Val(r.view)) THEN 200 ELSE 500
    IN [st |-> r.st, code |-> code, body |-> IF code = 200 THEN r.view ELSE None]

\* the ids of S, greatest key first; equal keys keep the order of the ids
OrderDesc(S, key) ==
    CHOOSE s \in [1..Cardinality(S) -> S] :
        /\ \A a, b \in DOMAIN s : a # b => s[a] # s[b]
        /\ \A a, b \in DOMAIN s :
              a < b => \/ key[s[a]] > key[s[b]]
                       \/ key[s[a]] = key[s[b]] /\ s[a] < s[b]

\* every order of the ids of S with the greatest key first: what a sort gives
\* whose order among equal keys is not fixed by the code
OrdersDesc(S, key) ==
    {s \in [1..Cardinality(S) -> S] :
        /\ \A a, b \in DOMAIN s : a # b => s[a] # s[b]
        /\ \A a, b \in DOMAIN s : a < b => key[s[a]] >= key[s[b]]}

Take(s, n) == SubSeq(s, 1, IF Len(s) < n THEN Len(s) ELSE n)

\* the instant of a stored timestamp; None sorts before every instant
InstantOf(ts) == IF IsSome(ts) THEN Val(ts)[2] ELSE -1

ListRow(id, d) ==
    [job_id |-> id, status |-> d.status, total_records |-> d.total_records,
     completed_count |-> d.completed_count, failed_count |-> d.failed_count,
     total_tokens_used |-> d.total_tokens_used,
     created_at |-> d.created_at, updated_at |-> d.updated_at]

\* list_jobs, memory: self._jobs sorted by created_at, most recent first
list_jobs_memory(st, limit) ==
    LET S == {j \in JobIds : IsSome(st.jobs[j])}
        order == OrderDesc(S, [j \in S |-> InstantOf(Val(st.jobs[j]).created_at)])
        row(j) == LET job == Val(st.jobs[j])
                  IN ListRow(j, [job EXCEPT !.status = StatusValue(@),
                                            !.created_at = serialize_datetime(@),
                                            !.updated_at = serialize_datetime(@)])
    IN Take([k \in DOMAIN order |-> row(order[k])], limit)

\* list_jobs, sqlite: SELECT ... FROM batch_jobs ORDER BY created_at DESC LIMIT ?
\* (rows of one created_at come in an order SQL leaves open)
list_jobs_sqlite(st, limit) ==
    LET S == {j \in JobIds : IsSome(st.disk[j])}
    IN {Take([k \in DOMAIN order |-> ListRow(order[k], Val(Val(st.disk[order[k]]).doc))],
             limit) :
          order \in OrdersDesc(S, [j \in S |->
                                    InstantOf(Val(Val(st.disk[j]).doc).created_at)])}

\* list_jobs, file: the *.json files by st_mtime, most recent first, those that
\* do not parse skipped; a file that parses was last written at its updated_at
\* (files of one st_mtime come in the order of glob, which the file system fixes)
list_jobs_file(st, limit) ==
    LET S == {j \in JobIds : IsSome(st.disk[j]) /\ Val(st.disk[j]).ok}
    IN {Take([k \in DOMAIN order |-> ListRow(order[k], Val(Val(st.disk[order[k]]).doc))],
             limit) :
          order \in OrdersDesc(S, [j \in S |->
                                    InstantOf(Val(Val(st.disk[j]).doc).updated_at)])}

\* list_jobs(limit), limit >= 1 as batch_list_jobs passes it: the lists it can return
list_jobs(st, limit) ==
    CASE backend = "sqlite" -> list_jobs_sqlite(st, limit)
      [] backend = "file" -> list_jobs_file(st, limit)
      [] OTHER -> {list_jobs_memory(st, limit)}

\* ------------------------------------------------------------------- Init
Init ==
    /\ clock = 0
    /\ rpmConf \in RpmChoices
    /\ concurrency \in ConcurrencyChoices
    /\ backend \in BackendChoices
    /\ cacheEnabled \in BOOLEAN
    /\ timestamps = <<>>
    /\ cache = {}
    /\ jobs = [j \in JobIds |-> None]
    /\ disk = [j \in JobIds |-> None]
    /\ writeFailures = 0
    /\ records \in [RecIdx -> RequestSet]
    /\ jobId = None
    /\ dpc = "idle"
    /\ gatherExc = None
    /\ sem = 0
    /\ pc = [i \in RecIdx |-> "none"]
    /\ attempt = [i \in RecIdx |-> 0]
    /\ lastError = [i \in RecIdx |-> None]
    /\ wake = [i \in RecIdx |-> 0]
    /\ llmLog = {}
    /\ analyzeCalls = 0
    /\ restarted = FALSE
    /\ returned = <<>>
    /\ before = [j \in JobIds |-> None]
    /\ held = [i \in RecIdx |-> None]

\* --------------------------------------------------- POST /batch/analyze
BatchAnalyzeInline ==
    /\ dpc = "idle" /\ ~restarted /\ HasFreshId(Store)
    /\ \E fail \in FailChoices(Store) :
        LET r == create_job(Store, NumRecords, clock, fail)
            p == set_processing(r.st, r.id, clock, FALSE)
        IN /\ SetStore(p.st)
           /\ jobId' = Some(r.id)
           /\ dpc' = IF IsSome(r.raised) THEN "rejected" ELSE "accepted"
    /\ UNCHANGED <<clock, configVars, limiterVars, cache, gatherExc, sem, pc, attempt,
                   lastError, wake, llmLog, analyzeVars, threadVars, restarted, observedVars>>

\* batch_analyze: create_job, then the background task is scheduled and the
\* 202 response returned; a create_job that raises ends the request (500)
BatchAnalyze ==
    /\ dpc = "idle" /\ ~restarted /\ HasFreshId(Store)
    /\ \E fail \in FailChoices(Store) :
        LET r == create_job(Store, NumRecords, clock, fail)
        IN /\ SetStore(r.st)
           /\ jobId' = Some(r.id)
           /\ dpc' = IF IsSome(r.raised) THEN "rejected" ELSE "accepted"
    /\ UNCHANGED <<clock, configVars, limiterVars, cache, gatherExc, sem, pc, attempt,
                   lastError, wake, llmLog, analyzeVars, threadVars, restarted,
                   observedVars>>

\* _process_batch up to the gather: set_processing, the semaphore, one task per record
ProcessBatchStart ==
    /\ dpc = "accepted"
    /\ \E fail \in FailChoices(Store) :
        LET r == set_processing(Store, Val(jobId), clock, fail)
        IN /\ SetStore(r.st)
           /\ dpc' = IF IsSome(r.raised) THEN "crashed" ELSE "gather"
           /\ sem' = IF IsSome(r.raised) THEN sem ELSE concurrency
           /\ pc' = IF IsSome(r.raised) THEN pc ELSE [i \in RecIdx |-> "start"]
    /\ UNCHANGED <<clock, configVars, limiterVars, cache, jobId, gatherExc, attempt,
                   lastError, wake, llmLog, analyzeVars, threadVars, restarted,
                   observedVars>>

\* an exception leaving a record task reaches gather; the first one is the one
\* _process_batch catches
Escapes(err) == IF IsNone(gatherExc) THEN Some(err) ELSE gatherExc

\* the record task ends with the append_result whose outcome is r: it returns,
\* or the exception of _persist leaves the task
TaskEnds(i, r) ==
    /\ SetStore(r.st)
    /\ pc' = [pc EXCEPT ![i] = IF IsSome(r.raised) THEN "raised" ELSE "done"]
    /\ gatherExc' = IF IsSome(r.raised) THEN Escapes(Val(r.raised)) ELSE gatherExc

NoNotesError == "At least one note is required"

TokensDropped(resp) == Some(0)

\* "tokens = getattr(x.metadata, 'tokens_used', None) or 0"
TokensOrZero(resp) == IF IsSome(resp.tokens_used) THEN resp.tokens_used ELSE Some(0)

AppendEmptyNotesAsLLMError(st, id, i, now, fail) ==
    append_result(st, id, i - 1, FALSE, None, Some("AIServiceError"), None, now, fail)

\* the three append_result calls of _process_one_record
AppendEmptyNotes(st, id, i, now, fail) ==
    append_result(st, id, i - 1, FALSE, None, Some(NoNotesError), None, now, fail)

AppendSuccessFresh(st, id, i, response, now, fail) ==
    append_result(st, id, i - 1, TRUE, Some(AnalyzeResponse(records[i])), None,
                  TokensOrZero(AnalyzeResponse(records[i])), now, fail)

AppendSuccess(st, id, i, response, now, fail) ==
    append_result(st, id, i - 1, TRUE, Some(response), None, TokensOrZero(response), now, fail)

AppendFailureNoError(st, id, i, last_error, now, fail) ==
    append_result(st, id, i - 1, FALSE, None, None, None, now, fail)

AppendFailure(st, id, i, last_error, now, fail) ==
    append_result(st, id, i - 1, FALSE, None, Some(last_error), None, now, fail)

\* _process_one_record up to the retry loop: empty notes, then the cache
RecordStart(i) ==
    /\ pc[i] = "start"
    /\ LET req == records[i]
           cached == CacheGet(req.structured_data, req.notes)
       IN IF req.notes = <<>>
          THEN \E fail \in FailChoices(Store) :
                  TaskEnds(i, AppendEmptyNotes(Store, Val(jobId), i, clock, fail))
          ELSE IF IsSome(cached)
          THEN \E fail \in FailChoices(Store) :
                  TaskEnds(i, AppendSuccess(Store, Val(jobId), i, Val(cached), clock, fail))
          ELSE /\ pc' = [pc EXCEPT ![i] = "sem"]
               /\ UNCHANGED <<storeVars, gatherExc>>
    /\ UNCHANGED <<clock, configVars, limiterVars, cache, jobId, dpc, sem, attempt,
                   lastError, wake, llmLog, analyzeVars, threadVars, restarted,
                   observedVars>>

\* The record of one ai_service.analyze invocation: when it started, whether an
\* acquire() of the caller returned just before it, the path and the batch record
\* (0 for /analyze) it serves, its number (the attempt of the record, the call of
\* /analyze), and how it ended.
Invocation(at, limited, path, rec, n) ==
    [at |-> at, limited |-> limited, path |-> path, rec |-> rec, n |-> n,
     outcome |-> "pending"]

\* the pending invocation of rec has ended with outcome
Returned(log, rec, outcome) ==
    {IF e.rec = rec /\ e.outcome = "pending" THEN [e EXCEPT !.outcome = outcome] ELSE e :
        e \in log}

\* one turn of RateLimiter.acquire's loop, under the lock: purge, then either
\* append the timestamp and return (ai_service.analyze is invoked next, with no
\* suspension in between), or sleep outside the lock, or, when sleep_until is
\* not positive, go round the loop again
LimiterTurn(i) ==
    LET ts == Purge(timestamps, clock)
    IN IF HasSlot(ts)
       THEN /\ timestamps' = Append(ts, clock)
            /\ pc' = [pc EXCEPT ![i] = "llm"]
            /\ llmLog' = llmLog \cup {Invocation(clock, TRUE, "batch", i, attempt[i])}
            /\ UNCHANGED wake
       ELSE /\ timestamps' = ts
            /\ pc' = [pc EXCEPT ![i] = IF SleepUntil(ts, clock) > 0 THEN "sleep" ELSE "rate"]
            /\ wake' = [wake EXCEPT ![i] =
                           IF SleepUntil(ts, clock) > 0 THEN clock + SleepUntil(ts, clock) ELSE @]
            /\ UNCHANGED llmLog

SemAlwaysFree == TRUE

\* "async with sem": the permit is taken when one is free
SemFree == sem > 0

\* the permit is taken and acquire() entered
SemAcquire(i) ==
    /\ pc[i] = "sem"
    /\ SemFree
    /\ sem' = sem - 1
    /\ LimiterTurn(i)
    /\ UNCHANGED <<clock, configVars, cache, storeVars, jobId, dpc, gatherExc,
                   attempt, lastError, analyzeVars, threadVars, restarted,
                   observedVars>>

\* acquire() goes round its loop again
RateAcquire(i) ==
    /\ pc[i] = "rate"
    /\ LimiterTurn(i)
    /\ UNCHANGED <<clock, configVars, cache, storeVars, jobId, dpc, gatherExc, sem,
                   attempt, lastError, analyzeVars, threadVars, restarted,
                   observedVars>>

\* asyncio.sleep(sleep_until) is over: the next turn of the loop
Wake(i) ==
    /\ pc[i] = "sleep"
    /\ clock >= wake[i]
    /\ LimiterTurn(i)
    /\ UNCHANGED <<clock, configVars, cache, storeVars, jobId, dpc, gatherExc, sem,
                   attempt, lastError, analyzeVars, threadVars, restarted,
                   observedVars>>

SemReleaseOnSuccess(ok) == IF ok THEN sem + 1 ELSE sem

\* the end of "async with sem": the permit is given back, whether the body
\* returned (ok) or raised
SemRelease(ok) == sem + 1

max_attempts == 1 + batch_record_retry_count

HasAttemptsLeft(i) == attempt[i] + 1 < max_attempts

\* the except clause: last_error = e; then the next attempt or, the attempts used
\* up, append_result(job_id, idx, False, error=str(last_error)) after the loop
AttemptFailed(i, err, st) ==
    /\ lastError' = [lastError EXCEPT ![i] = Some(err)]
    /\ attempt' = [attempt EXCEPT ![i] = @ + 1]
    /\ IF HasAttemptsLeft(i)
       THEN /\ pc' = [pc EXCEPT ![i] = "sem"]
            /\ SetStore(st)
            /\ UNCHANGED gatherExc
       ELSE \E fail \in FailChoices(st) :
               TaskEnds(i, AppendFailure(st, Val(jobId), i, err, clock, fail))

\* ai_service.analyze returns or raises and the permit is given back; on success
\* the cache is filled and the result appended, all inside the try.  Other tasks
\* may run while the call is out: the schedule in which the blocking client
\* lets none run is the one where LLMReturn follows the grant at once.
LLMReturn(i) ==
    /\ pc[i] = "llm"
    /\ \E ok \in BOOLEAN :
        /\ sem' = SemRelease(ok)
        /\ llmLog' = Returned(llmLog, i, IF ok THEN "ok" ELSE "error")
        /\ cache' = CacheFill(ok, records[i], AnalyzeResponse(records[i]))
        /\ IF ok
           THEN \E fail \in FailChoices(Store) :
              LET response == AnalyzeResponse(records[i])
                  r == AppendSuccess(Store, Val(jobId), i, response, clock, fail)
              IN IF IsNone(r.raised)
                 THEN /\ TaskEnds(i, r)
                      /\ UNCHANGED <<lastError, attempt>>
                 ELSE AttemptFailed(i, Val(r.raised), r.st)
           ELSE AttemptFailed(i, "AIServiceError", Store)
    /\ UNCHANGED <<clock, configVars, limiterVars, jobId, dpc, wake,
                   analyzeVars, threadVars, restarted,
                   observedVars>>

\* the record task has ended, or waits at an await: in asyncio.sleep, in the
\* LLM call, or for a permit of the semaphore
Parked(i) ==
    \/ pc[i] \in {"done", "raised", "sleep", "llm"}
    \/ pc[i] = "sem" /\ ~SemFree

\* asyncio.gather raises the first exception of a task: set_job_failed, return.
\* _process_batch is woken through callbacks queued behind the tasks that are
\* ready to run, so it resumes when every other task has ended or waits.
GatherRaise ==
    /\ dpc = "gather"
    /\ IsSome(gatherExc)
    /\ \A i \in RecIdx : Parked(i)
    /\ \E fail \in FailChoices(Store) :
        LET r == set_job_failed(Store, Val(jobId), gatherExc, clock, fail)
        IN /\ SetStore(r.st)
           /\ dpc' = IF IsSome(r.raised) THEN "crashed" ELSE "done"
    /\ UNCHANGED <<clock, configVars, limiterVars, cache, jobId, gatherExc, sem, pc,
                   attempt, lastError, wake, llmLog, analyzeVars, threadVars, restarted,
                   observedVars>>

GatherReturnedSome == \E i \in RecIdx : pc[i] = "done"

\* asyncio.gather returns once every task has returned
GatherReturned == \A i \in RecIdx : pc[i] = "done"

GatherReturn ==
    /\ dpc = "gather"
    /\ GatherReturned
    /\ \E fail \in FailChoices(Store) :
        LET r == set_job_completed(Store, Val(jobId), clock, fail)
        IN /\ SetStore(r.st)
           /\ dpc' = IF IsSome(r.raised) THEN "crashed" ELSE "done"
    /\ UNCHANGED <<clock, configVars, limiterVars, cache, jobId, gatherExc, sem, pc,
                   attempt, lastError, wake, llmLog, analyzeVars, threadVars, restarted,
                   observedVars>>

\* _process_batch is cancelled while it waits in gather (the server shuts the
\* background task down): gather cancels every task that has not ended, and
\* CancelledError is raised in each at the await where it waits.  It is no
\* Exception, so neither except clause catches it: a task inside
\* "async with sem" leaves it, giving its permit back, and ends; the job
\* stays as it is.
CancelBatch ==
    /\ dpc = "gather"
    /\ \E i \in RecIdx : pc[i] \notin {"done", "raised"}
    /\ dpc' = "cancelled"
    /\ pc' = [i \in RecIdx |-> IF pc[i] \in {"done", "raised"} THEN pc[i] ELSE "cancelled"]
    /\ sem' = sem + Cardinality({i \in RecIdx : pc[i] \in {"rate", "sleep", "llm"}})
    /\ llmLog' = {IF e.outcome = "pending" THEN [e EXCEPT !.outcome = "cancelled"] ELSE e :
                    e \in llmLog}
    /\ UNCHANGED <<clock, configVars, limiterVars, cache, storeVars, jobId, gatherExc,
                   attempt, lastError, wake, analyzeVars, threadVars, restarted,
                   observedVars>>

\* ---------------------------------------------------------- POST /analyze
\* analyze: 400 on empty notes, else the cached response, else ai_service.analyze
\* is invoked and, when it returns, the cache filled (200); when it raises, 500.
\* The handler has no suspension point (AIService.analyze awaits nothing), so
\* it is one step.
\* what one /analyze call answered: the status code, the body of a 200, and
\* whether ai_service.analyze was invoked for it
AnalyzeReply(req, code, body, llm) ==
    [op |-> "analyze", req |-> req, code |-> code, body |-> body, llm |-> llm]

Analyze ==
    /\ analyzeCalls < MaxAnalyzeCalls /\ ~restarted
    /\ analyzeCalls' = analyzeCalls + 1
    /\ \E req \in RequestSet, ok \in BOOLEAN :
        LET cached == CacheGet(req.structured_data, req.notes)
            response == AnalyzeResponse(req)
        IN IF req.notes = <<>>
           THEN /\ returned' = Append(returned, AnalyzeReply(req, 400, None, FALSE))
                /\ UNCHANGED <<cache, llmLog>>
           ELSE IF IsSome(cached)
           THEN /\ returned' = Append(returned, AnalyzeReply(req, 200, cached, FALSE))
                /\ UNCHANGED <<cache, llmLog>>
           ELSE /\ llmLog' = Returned(llmLog \cup {Invocation(clock, FALSE, "analyze", 0,
                                                               analyzeCalls)},
                                      0, IF ok THEN "ok" ELSE "error")
                /\ cache' = CacheFill(ok, req, response)
                /\ returned' = Append(returned,
                                      IF ok THEN AnalyzeReply(req, 200, Some(response), TRUE)
                                      ELSE AnalyzeReply(req, 500, None, TRUE))
    /\ UNCHANGED <<clock, configVars, limiterVars, storeVars, batchVars, restarted, before,
                   threadVars>>

\* ------------------------------------------------ GET /batch/{id}/status
\* get_status_response -> get_job: a job not in memory is loaded and kept
BatchStatus(id) ==
    /\ SetStore(get_job(Store, id).st)
    /\ UNCHANGED <<clock, configVars, limiterVars, cache, batchVars, llmLog,
                   analyzeVars, threadVars, restarted,
                   observedVars>>

\* ------------------------------------------------------------ environment
\* Time passes while a coroutine is suspended (in asyncio.sleep, in the LLM call)
\* or spins in acquire on a full window; the code between two suspension points
\* runs in no time, and the batch is submitted at time 0.
TimePasses == \E i \in RecIdx : pc[i] \in {"sleep", "llm", "rate"}

Tick ==
    /\ clock < MaxTime
    /\ TimePasses
    /\ clock' = clock + TickStep
    /\ UNCHANGED <<configVars, limiterVars, cache, storeVars, batchVars, llmLog,
                   analyzeVars, threadVars, restarted,
                   observedVars>>

\* the process stops and starts again: memory is lost (the jobs, the cache, the
\* limiter, every task), the medium stays
Restart ==
    /\ ~restarted
    /\ dpc # "idle"
    /\ restarted' = TRUE
    /\ jobs' = [j \in JobIds |-> None]
    /\ cache' = {}
    /\ timestamps' = <<>>
    /\ llmLog' = {}
    /\ dpc' = "dead"
    /\ pc' = [i \in RecIdx |-> "dead"]
    /\ sem' = 0
    /\ gatherExc' = None
    /\ attempt' = [i \in RecIdx |-> 0]
    /\ lastError' = [i \in RecIdx |-> None]
    /\ wake' = [i \in RecIdx |-> 0]
    /\ before' = jobs
    /\ UNCHANGED <<clock, configVars, disk, writeFailures, jobId, analyzeCalls, threadVars, returned>>

\* the process stops inside _persist of the file backend, between
\* open(path, "w"), which truncates <job_id>.json, and the end of json.dump:
\* the file is left empty or cut short; the mutation under way is lost with the
\* memory.  The writes of a batch run are those of set_processing, of
\* append_result and of set_job_completed / set_job_failed.
StopInWrite ==
    /\ ~restarted
    /\ backend = "file"
    /\ dpc \in {"accepted", "gather"}
    /\ IsSome(jobs[Val(jobId)])
    /\ disk' = [disk EXCEPT ![Val(jobId)] = Some([ok |-> FALSE, doc |-> None])]
    /\ restarted' = TRUE
    /\ jobs' = [j \in JobIds |-> None]
    /\ cache' = {}
    /\ timestamps' = <<>>
    /\ llmLog' = {}
    /\ dpc' = "dead"
    /\ pc' = [i \in RecIdx |-> "dead"]
    /\ sem' = 0
    /\ gatherExc' = None
    /\ attempt' = [i \in RecIdx |-> 0]
    /\ lastError' = [i \in RecIdx |-> None]
    /\ wake' = [i \in RecIdx |-> 0]
    /\ before' = jobs
    /\ UNCHANGED <<clock, configVars, writeFailures, jobId, analyzeCalls, threadVars, returned>>

Next ==
    \/ BatchAnalyze
    \/ ProcessBatchStart
    \/ \E i \in RecIdx : RecordStart(i)
    \/ \E i \in RecIdx : SemAcquire(i)
    \/ \E i \in RecIdx : RateAcquire(i)
    \/ \E i \in RecIdx : Wake(i)
    \/ \E i \in RecIdx : LLMReturn(i)
    \/ GatherRaise
    \/ GatherReturn
    \/ \E id \in JobIds : BatchStatus(id)
    \/ Tick
    \/ Restart
    \/ StopInWrite

\* one batch, its status polls, and a restart of the process
Spec == Init /\ [][Next]_vars

\* the serving process, a batch together with /analyze requests, with the cache
\* enabled and a budget of one LLM call per window; the records of the batch all
\* carry the same request, /analyze any request
InitService ==
    /\ Init
    /\ backend \in {"memory", "file"}
    /\ concurrency = 2
    /\ rpmConf = 0
    /\ cacheEnabled
    /\ records = [i \in RecIdx |-> ReqAB]

NextService ==
    \/ BatchAnalyze
    \/ ProcessBatchStart
    \/ \E i \in RecIdx : RecordStart(i)
    \/ \E i \in RecIdx : SemAcquire(i)
    \/ \E i \in RecIdx : RateAcquire(i)
    \/ \E i \in RecIdx : Wake(i)
    \/ \E i \in RecIdx : LLMReturn(i)
    \/ GatherRaise
    \/ GatherReturn
    \/ Analyze
    \/ Tick

SpecService == InitService /\ [][NextService]_vars

\* the same service with batches whose records may have no notes
InitNotes ==
    /\ Init
    /\ backend \in {"memory", "file"}
    /\ concurrency = 2
    /\ rpmConf = 0
    /\ cacheEnabled
    /\ records \in [RecIdx -> {ReqEmpty, ReqAB}]

SpecNotes == InitNotes /\ [][NextService]_vars

\* ------------------------------------------------------- the store alone
\* The public operations of BatchJobStore called by an arbitrary caller, in any
\* order and any number of times; an exception of _persist goes to the caller
\* and the store stays as the operation left it.
CallCreateJob ==
    /\ HasFreshId(Store)
    /\ Cardinality({j \in JobIds : IsSome(jobs[j])}) < MaxStoreJobs
    /\ \E fail \in FailChoices(Store) :
        SetStore(create_job(Store, NumRecords, clock, fail).st)
    /\ UNCHANGED <<clock, configVars, limiterVars, cache, batchVars, llmLog,
                   analyzeVars, threadVars, restarted,
                   observedVars>>

CallSetProcessing(id) ==
    /\ \E fail \in FailChoices(Store) :
        SetStore(set_processing(Store, id, clock, fail).st)
    /\ UNCHANGED <<clock, configVars, limiterVars, cache, batchVars, llmLog,
                   analyzeVars, threadVars, restarted,
                   observedVars>>

CallAppendResult(id) ==
    /\ IsSome(jobs[id]) => Len(Val(jobs[id]).results) < MaxAppends
    /\ \E fail \in FailChoices(Store), i \in RecIdx, success \in BOOLEAN :
        SetStore((IF success
                  THEN AppendSuccess(Store, id, i, AnalyzeResponse(ReqAB), clock, fail)
                  ELSE AppendFailure(Store, id, i, "AIServiceError", clock, fail)).st)
    /\ UNCHANGED <<clock, configVars, limiterVars, cache, batchVars, llmLog,
                   analyzeVars, threadVars, restarted,
                   observedVars>>

CallSetJobCompleted(id) ==
    /\ \E fail \in FailChoices(Store) :
        SetStore(set_job_completed(Store, id, clock, fail).st)
    /\ UNCHANGED <<clock, configVars, limiterVars, cache, batchVars, llmLog,
                   analyzeVars, threadVars, restarted,
                   observedVars>>

CallSetJobFailed(id) ==
    /\ \E fail \in FailChoices(Store), message \in {None, Some("boom")} :
        SetStore(set_job_failed(Store, id, message, clock, fail).st)
    /\ UNCHANGED <<clock, configVars, limiterVars, cache, batchVars, llmLog,
                   analyzeVars, threadVars, restarted,
                   observedVars>>

\* time passes between two calls
StoreTick ==
    /\ clock < MaxTime
    /\ clock' = clock + TickStep
    /\ UNCHANGED <<configVars, limiterVars, cache, storeVars, batchVars, llmLog,
                   analyzeVars, threadVars, restarted,
                   observedVars>>

NextStore ==
    \/ CallCreateJob
    \/ \E id \in JobIds : CallSetProcessing(id)
    \/ \E id \in JobIds : CallAppendResult(id)
    \/ \E id \in JobIds : CallSetJobCompleted(id)
    \/ \E id \in JobIds : CallSetJobFailed(id)
    \/ StoreTick

InitStore ==
    /\ Init
    /\ rpmConf = 2
    /\ concurrency = 2
    /\ cacheEnabled

SpecStore == InitStore /\ [][NextStore]_vars

\* ------------------------------------------------------- the cache alone
\* get, set and clear of CacheService called with any requests in any order;
\* returned holds the last call, its request and the value given or got.
StrValue(x) == [kind |-> "str", v |-> x]
DictValue(items) == [kind |-> "dict", items |-> items]
Item(k, v) == [key |-> k, value |-> v]

InnerPQ == <<Item("p", StrValue("1")), Item("q", StrValue("2"))>>
InnerQP == <<Item("q", StrValue("2")), Item("p", StrValue("1"))>>

CacheDicts ==
    {None, Some(<<>>),
     Some(<<Item("x", StrValue("1")), Item("y", DictValue(InnerPQ))>>),
     Some(<<Item("y", DictValue(InnerQP)), Item("x", StrValue("1"))>>),
     Some(<<Item("x", StrValue("1")), Item("y", DictValue(InnerQP))>>),
     Some(<<Item("x", StrValue("2"))>>)}

CacheNotes == {<<"a", "b">>, <<"b", "a">>, <<"a">>}

CacheRequests == {[structured_data |-> d, notes |-> n] : d \in CacheDicts, n \in CacheNotes}

CacheValues == {AnalyzeResponse(ReqAB), AnalyzeResponse(ReqBA)}

CacheCall(op, req, value) == [op |-> op, req |-> req, value |-> value]

CallCacheSet ==
    /\ \E req \in CacheRequests, v \in CacheValues :
        /\ cache' = CacheSet(req.structured_data, req.notes, v)
        /\ Cardinality(cache') <= MaxCacheEntries
        /\ returned' = <<CacheCall("set", req, Some(v))>>
    /\ UNCHANGED <<clock, configVars, limiterVars, storeVars, batchVars, llmLog,
                   analyzeVars, threadVars, restarted, before>>

CallCacheGet ==
    /\ \E req \in CacheRequests :
        returned' = <<CacheCall("get", req, CacheGet(req.structured_data, req.notes))>>
    /\ UNCHANGED <<clock, configVars, limiterVars, cache, storeVars, batchVars, llmLog,
                   analyzeVars, threadVars, restarted, before>>

\* clear() empties the cache whether it is enabled or not
CallCacheClear ==
    /\ cache' = {}
    /\ returned' = <<CacheCall("clear", ReqEmpty, None)>>
    /\ UNCHANGED <<clock, configVars, limiterVars, storeVars, batchVars, llmLog,
                   analyzeVars, threadVars, restarted, before>>

NextCache ==
    \/ CallCacheSet
    \/ CallCacheGet
    \/ CallCacheClear

InitCache ==
    /\ Init
    /\ rpmConf = 2
    /\ concurrency = 2
    /\ backend = "memory"
    /\ records = [i \in RecIdx |-> ReqAB]

SpecCache == InitCache /\ [][NextCache]_vars

\* ----------------------------------------------------- the limiter alone
\* acquire() of one RateLimiter called by callers of their own, each up to
\* MaxAcquireCalls times, at any instants; returned lists the calls in the order
\* they were issued, llmLog the instants at which they returned.
AcquireCall(caller, n, issued) ==
    [op |-> "acquire", caller |-> caller, n |-> n, issued |-> issued]

\* a caller enters acquire(): the first turn of its loop
CallAcquire(i) ==
    /\ pc[i] = "none"
    /\ attempt[i] < MaxAcquireCalls
    /\ LimiterTurn(i)
    /\ returned' = Append(returned, AcquireCall(i, attempt[i], clock))
    /\ UNCHANGED <<clock, configVars, cache, storeVars, jobId, dpc, gatherExc, sem,
                   attempt, lastError, analyzeVars, threadVars, restarted, before>>

\* acquire() has returned to the caller, who may call again
AcquireDone(i) ==
    /\ pc[i] = "llm"
    /\ pc' = [pc EXCEPT ![i] = "none"]
    /\ attempt' = [attempt EXCEPT ![i] = @ + 1]
    /\ UNCHANGED <<clock, configVars, limiterVars, cache, storeVars, jobId, dpc,
                   gatherExc, sem, lastError, wake, llmLog, analyzeVars, threadVars, restarted,
                   observedVars>>

CancelledWindowKept(ts) == Append(ts, clock)

\* the window after a call was cancelled in its sleep: the sleep is outside
\* "async with self._lock" and nothing was appended before it
CancelledWindow(ts) == ts

\* the caller is cancelled while acquire() waits in asyncio.sleep, the one
\* await of acquire() where a task waits (the lock is taken and released with
\* no await in between, so no task ever waits for it): CancelledError leaves
\* acquire()
CancelAcquire(i) ==
    /\ pc[i] = "sleep"
    /\ pc' = [pc EXCEPT ![i] = "none"]
    /\ attempt' = [attempt EXCEPT ![i] = @ + 1]
    /\ timestamps' = CancelledWindow(timestamps)
    /\ returned' = [k \in DOMAIN returned |->
                      IF returned[k].caller = i /\ returned[k].n = attempt[i]
                      THEN [returned[k] EXCEPT !.op = "cancelled"]
                      ELSE returned[k]]
    /\ UNCHANGED <<clock, configVars, cache, storeVars, jobId, dpc, gatherExc, sem,
                   lastError, wake, llmLog, analyzeVars, threadVars, restarted, before>>

NextLimiter ==
    \/ \E i \in RecIdx : CallAcquire(i)
    \/ \E i \in RecIdx : RateAcquire(i)
    \/ \E i \in RecIdx : Wake(i)
    \/ \E i \in RecIdx : AcquireDone(i)
    \/ \E i \in RecIdx : CancelAcquire(i)
    \/ StoreTick

InitLimiter ==
    /\ Init
    /\ concurrency = 2
    /\ backend = "memory"
    /\ cacheEnabled
    /\ records = [i \in RecIdx |-> ReqAB]

SpecLimiter == InitLimiter /\ [][NextLimiter]_vars

\* the caller is inside acquire() and has not been let through
Waiting(i) == pc[i] \in {"sleep", "rate"}

\* an instant by which every call that can be issued has been let through:
\* each needs at most one window and the ticks around it after the call before
WaitHorizon == MaxTime + NumRecords * MaxAcquireCalls * (window_seconds + 2 * TickStep)

\* the coroutine of caller i is ready to run: its sleep is over, or it goes
\* round the loop of acquire() and would find a slot
Ready(i) ==
    \/ pc[i] = "sleep" /\ clock >= wake[i]
    \/ pc[i] = "rate" /\ HasSlot(Purge(timestamps, clock))

\* time.monotonic() advances: while calls can still be issued, and for as long
\* as a caller is inside acquire().  The event loop runs the coroutines that
\* are ready before it waits for its next timer.
LimiterTick ==
    /\ clock < MaxTime \/ (clock < WaitHorizon /\ \E i \in RecIdx : Waiting(i))
    /\ \A i \in RecIdx : ~Ready(i)
    /\ clock' = clock + TickStep
    /\ UNCHANGED <<configVars, limiterVars, cache, storeVars, batchVars, llmLog,
                   analyzeVars, threadVars, restarted, observedVars>>

\* the callers issue their calls up to MaxTime
CallInTime(i) == clock <= MaxTime /\ CallAcquire(i)

NextLimiterLive ==
    \/ \E i \in RecIdx : CallInTime(i)
    \/ \E i \in RecIdx : RateAcquire(i)
    \/ \E i \in RecIdx : Wake(i)
    \/ \E i \in RecIdx : AcquireDone(i)
    \/ \E i \in RecIdx : CancelAcquire(i)
    \/ LimiterTick

\* the event loop runs a coroutine whose sleep is over or that goes round its
\* loop, and time advances; callers call, and are cancelled, as they please
SpecLimiterLive ==
    /\ InitLimiter
    /\ [][NextLimiterLive]_vars
    /\ WF_vars(LimiterTick)
    /\ \A i \in RecIdx : WF_vars(Wake(i)) /\ WF_vars(RateAcquire(i))

\* ------------------------------------------- the store and its callers' view
\* The operations of the store called in any order on any job id, known or not;
\* returned holds the last call: the operation, the id, whether the store
\* reported the job found, and for a status poll the code answered.
StoreCall(op, id, found, code) ==
    [op |-> op, id |-> id, found |-> found, code |-> code]

MutatingOps == {"set_processing", "append_result", "set_job_completed", "set_job_failed"}

ObsCreateJob ==
    /\ HasFreshId(Store)
    /\ \E fail \in FailChoices(Store) :
        LET r == create_job(Store, NumRecords, clock, fail)
        IN /\ SetStore(r.st)
           /\ returned' = <<StoreCall("create_job", r.id, TRUE, 0)>>
    /\ UNCHANGED <<clock, configVars, limiterVars, cache, batchVars, llmLog,
                   analyzeVars, threadVars, restarted, before>>

ObsMutate(op, id) ==
    /\ IsSome(jobs[id]) => Len(Val(jobs[id]).results) < MaxAppends
    /\ \E fail \in FailChoices(Store) :
        LET r == CASE op = "set_processing" -> set_processing(Store, id, clock, fail)
                   [] op = "append_result" ->
                        AppendFailure(Store, id, 1, "AIServiceError", clock, fail)
                   [] op = "set_job_completed" -> set_job_completed(Store, id, clock, fail)
                   [] OTHER -> set_job_failed(Store, id, Some("boom"), clock, fail)
        IN /\ SetStore(r.st)
           /\ returned' = <<StoreCall(op, id, r.found, 0)>>
    /\ UNCHANGED <<clock, configVars, limiterVars, cache, batchVars, llmLog,
                   analyzeVars, threadVars, restarted, before>>

ObsStatus(id) ==
    /\ LET r == batch_status(Store, id)
       IN /\ SetStore(r.st)
          /\ returned' = <<StoreCall("status", id, r.code # 404, r.code)>>
    /\ UNCHANGED <<clock, configVars, limiterVars, cache, batchVars, llmLog,
                   analyzeVars, threadVars, restarted, before>>

NextCalls ==
    \/ ObsCreateJob
    \/ \E op \in MutatingOps, id \in JobIds : ObsMutate(op, id)
    \/ \E id \in JobIds : ObsStatus(id)

SpecCalls == InitStore /\ [][NextCalls]_vars

\* --------------------------------------------- one batch and its semaphore
\* One batch run to its end or cancelled on the way, with no other request.
NextBatch ==
    \/ BatchAnalyze
    \/ ProcessBatchStart
    \/ \E i \in RecIdx : RecordStart(i)
    \/ \E i \in RecIdx : SemAcquire(i)
    \/ \E i \in RecIdx : RateAcquire(i)
    \/ \E i \in RecIdx : Wake(i)
    \/ \E i \in RecIdx : LLMReturn(i)
    \/ GatherRaise
    \/ GatherReturn
    \/ CancelBatch
    \/ Tick

InitBatch == Init /\ backend \in {"memory", "file"}

SpecBatch == InitBatch /\ [][NextBatch]_vars

\* ------------------------------------------------- the store and its list
\* Up to MaxJobs jobs created at instants of their own and moved to processing
\* later on, with list_jobs read after every step.
ListCreateJob ==
    /\ HasFreshId(Store)
    /\ \E fail \in FailChoices(Store) :
        SetStore(create_job(Store, NumRecords, clock, fail).st)
    /\ UNCHANGED <<clock, configVars, limiterVars, cache, batchVars, llmLog,
                   analyzeVars, threadVars, restarted,
                   observedVars>>

NextList ==
    \/ ListCreateJob
    \/ \E id \in JobIds : CallSetProcessing(id)
    \/ StoreTick

SpecList == InitStore /\ [][NextList]_vars

\* ------------------------------------------------ the store under threads
\* BatchJobStore guards self._jobs with a threading.Lock and does its reads and
\* writes of the medium outside it.  Each thread runs store calls one after
\* another; a step is what a call does between two points where another thread
\* can run, and held[t] is what the call of thread t has in its locals.  The
\* callers pass job ids that create_job has returned.
ThreadOps == {"set_processing", "append_result"}

\* the part of a mutating call under self._lock
MutateMem(op, job, t, now) ==
    IF op = "set_processing"
    THEN SetProcessingMem(job, now)
    ELSE AppendResultMem(job, t - 1, FALSE, None, Some("AIServiceError"), None, now)

\* a mutating call: "with self._lock:" up to its end; False when the job is
\* not in memory
ThreadMutate(t, id) ==
    /\ pc[t] = "none" /\ attempt[t] < MaxThreadCalls
    /\ ~IsFresh(Store, id)
    /\ attempt' = [attempt EXCEPT ![t] = @ + 1]
    /\ IF IsSome(jobs[id])
       THEN /\ \E op \in ThreadOps :
                 jobs' = [jobs EXCEPT ![id] = Some(MutateMem(op, Val(@), t, clock))]
            /\ pc' = [pc EXCEPT ![t] = "persist"]
            /\ held' = [held EXCEPT ![t] = Some([job_id |-> id, data |-> None])]
       ELSE UNCHANGED <<jobs, pc, held>>
    /\ UNCHANGED <<clock, configVars, limiterVars, cache, disk, writeFailures, jobId,
                   dpc, gatherExc, sem, lastError, wake, llmLog, analyzeVars, restarted,
                   observedVars>>

\* _persist reads the job: the payload of the file, the batch_jobs row of sqlite
ThreadSnapshot(t) ==
    /\ pc[t] = "persist"
    /\ LET id == Val(held[t]).job_id
       IN IF backend = "memory" \/ ~IsSome(jobs[id])
          THEN /\ pc' = [pc EXCEPT ![t] = "none"]
               /\ held' = [held EXCEPT ![t] = None]
          ELSE /\ pc' = [pc EXCEPT ![t] = "write"]
               /\ held' = [held EXCEPT ![t] = Some([job_id |-> id, data |-> jobs[id]])]
    /\ UNCHANGED <<clock, configVars, limiterVars, cache, storeVars, jobId, dpc,
                   gatherExc, sem, attempt, lastError, wake, llmLog, analyzeVars,
                   restarted, observedVars>>

\* what the write of thread t puts on the medium: the file holds the payload
\* built before; the sqlite transaction holds the row built before and the
\* results it reads from job["results"] while it runs
WrittenJob(t) ==
    LET h == Val(held[t])
        snap == Val(h.data)
    IN IF backend = "sqlite" /\ IsSome(jobs[h.job_id])
       THEN [snap EXCEPT !.results = Val(jobs[h.job_id]).results]
       ELSE snap

\* _persist writes: open(path, "w") and json.dump, or the sqlite transaction
ThreadWrite(t) ==
    /\ pc[t] = "write"
    /\ disk' = PersistTo(disk, Val(held[t]).job_id, WrittenJob(t), FALSE)
    /\ pc' = [pc EXCEPT ![t] = "none"]
    /\ held' = [held EXCEPT ![t] = None]
    /\ UNCHANGED <<clock, configVars, limiterVars, cache, jobs, writeFailures, jobId,
                   dpc, gatherExc, sem, attempt, lastError, wake, llmLog, analyzeVars,
                   restarted, observedVars>>

\* get_job under the lock: the job is in memory and returned, or it is not
ThreadGetJob(t, id) ==
    /\ pc[t] = "none" /\ attempt[t] < MaxThreadCalls
    /\ ~IsFresh(Store, id)
    /\ attempt' = [attempt EXCEPT ![t] = @ + 1]
    /\ IF IsSome(jobs[id])
       THEN UNCHANGED <<pc, held>>
       ELSE /\ pc' = [pc EXCEPT ![t] = "load"]
            /\ held' = [held EXCEPT ![t] = Some([job_id |-> id, data |-> None])]
    /\ UNCHANGED <<clock, configVars, limiterVars, cache, storeVars, jobId, dpc,
                   gatherExc, sem, lastError, wake, llmLog, analyzeVars, restarted,
                   observedVars>>

\* get_job outside the lock: _load_from_sqlite / _load_from_file
ThreadLoad(t) ==
    /\ pc[t] = "load"
    /\ LET id == Val(held[t]).job_id
           loaded == Load(disk, id)
       IN IF IsSome(loaded)
          THEN /\ pc' = [pc EXCEPT ![t] = "install"]
               /\ held' = [held EXCEPT ![t] = Some([job_id |-> id, data |-> loaded])]
          ELSE /\ pc' = [pc EXCEPT ![t] = "none"]
               /\ held' = [held EXCEPT ![t] = None]
    /\ UNCHANGED <<clock, configVars, limiterVars, cache, storeVars, jobId, dpc,
                   gatherExc, sem, attempt, lastError, wake, llmLog, analyzeVars,
                   restarted, observedVars>>

\* get_job under the lock again: self._jobs[job_id] = loaded
ThreadInstall(t) ==
    /\ pc[t] = "install"
    /\ jobs' = [jobs EXCEPT ![Val(held[t]).job_id] = Val(held[t]).data]
    /\ pc' = [pc EXCEPT ![t] = "none"]
    /\ held' = [held EXCEPT ![t] = None]
    /\ UNCHANGED <<clock, configVars, limiterVars, cache, disk, writeFailures, jobId,
                   dpc, gatherExc, sem, attempt, lastError, wake, llmLog, analyzeVars,
                   restarted, observedVars>>

\* the process is started again with no call under way: __init__ leaves
\* self._jobs empty and the medium as it was
ThreadRestart ==
    /\ ~restarted
    /\ \A t \in RecIdx : pc[t] = "none"
    /\ \E j \in JobIds : IsSome(jobs[j])
    /\ restarted' = TRUE
    /\ before' = jobs
    /\ jobs' = [j \in JobIds |-> None]
    /\ UNCHANGED <<clock, configVars, limiterVars, cache, disk, writeFailures, jobId,
                   dpc, gatherExc, sem, pc, attempt, lastError, wake, llmLog,
                   analyzeVars, threadVars, returned>>

NextThreads ==
    \/ CallCreateJob
    \/ \E t \in RecIdx, id \in JobIds : ThreadMutate(t, id)
    \/ \E t \in RecIdx : ThreadSnapshot(t)
    \/ \E t \in RecIdx : ThreadWrite(t)
    \/ \E t \in RecIdx, id \in JobIds : ThreadGetJob(t, id)
    \/ \E t \in RecIdx : ThreadLoad(t)
    \/ \E t \in RecIdx : ThreadInstall(t)
    \/ ThreadRestart

InitThreads == InitStore /\ backend \in {"file", "sqlite"}

SpecThreads == InitThreads /\ [][NextThreads]_vars

\* ------------------------------------------------------------ properties
\* the invocations that followed a return of acquire()
Grants == {e \in llmLog : e.limited}

\* the invocations of S started in the closed interval [t, t + window_seconds]
InWindow(S, t) == {e \in S : e.at >= t /\ e.at <= t + window_seconds}

\* the invocations made for batch record i
InvocationsOf(i) == {e \in llmLog : e.rec = i /\ e.path = "batch"}

KnownJobs == {j \in JobIds : IsSome(jobs[j])}

Job(j) == Val(jobs[j])

ResultsAt(job, index) == {k \in 1..Len(job.results) : job.results[k].index = index}

\* the jobs readable from the medium
StoredJobs == {j \in JobIds : IsSome(Load(disk, j))}

Stored(j) == Val(Load(disk, j))

Holders == {i \in RecIdx : pc[i] \in {"rate", "sleep", "llm"}}

DispatcherOver == dpc \in {"done", "crashed"}

\* C1: no closed 60-second interval holds more than Rpm returns of acquire():
\* counted from each return, the returns of the next 60 seconds, both ends
\* included, are at most Rpm.
C1_WindowBudget ==
    \A e \in Grants : Cardinality(InWindow(Grants, e.at)) <= Rpm

\* more acquire() calls than the budget: one returned later than 60 s after another
C1_Witness ==
    /\ Cardinality(Grants) > Rpm
    /\ \E e, f \in Grants : f.at > e.at + window_seconds

\* C2: every LLM invocation, of /analyze or of a batch attempt, follows an
\* acquire() of its own, and the invocations of both paths started in any closed
\* 60-second interval are at most Rpm.
C2_EveryInvocationLimited ==
    /\ \A e \in llmLog : e.limited
    /\ \A e \in llmLog : Cardinality(InWindow(llmLog, e.at)) <= Rpm

\* C3: completed_count + failed_count never exceeds total_records, in memory and
\* in every snapshot readable from the medium.
C3_CountsWithinTotal ==
    /\ \A j \in KnownJobs :
          Job(j).completed_count + Job(j).failed_count <= Job(j).total_records
    /\ \A j \in StoredJobs :
          Stored(j).completed_count + Stored(j).failed_count <= Stored(j).total_records

StatusRank(s) ==
    CASE s = "ACCEPTED" -> 0
      [] s = "PROCESSING" -> 1
      [] OTHER -> 2

\* C4: whatever store operations are called and in whatever order, a job's status
\* stays as it is or moves forward (accepted, then processing, then completed or
\* failed), and a completed or failed job keeps its status.
C4_StatusOnlyForward ==
    [][\A j \in JobIds :
          (IsSome(jobs[j]) /\ IsSome(jobs'[j])) =>
              \/ Val(jobs'[j]).status = Job(j).status
              \/ StatusRank(Val(jobs'[j]).status) > StatusRank(Job(j).status)]_vars

\* C5: a job in status completed holds exactly one result for each index
\* 0..n-1 and nothing else, and completed_count + failed_count = total_records.
C5_CompletedIsExhaustive ==
    \A j \in KnownJobs :
        Job(j).status = "COMPLETED" =>
            /\ \A i \in RecIdx : Cardinality(ResultsAt(Job(j), i - 1)) = 1
            /\ Len(Job(j).results) = NumRecords
            /\ Job(j).completed_count + Job(j).failed_count = Job(j).total_records

\* the dispatcher has set the job completed
C5_Witness ==
    /\ dpc = "done"
    /\ IsNone(gatherExc)
    /\ Job(Val(jobId)).status = "COMPLETED"
    /\ Len(Job(Val(jobId)).results) = NumRecords

\* every LLM attempt of record i was made and failed
AllAttemptsFailed(i) ==
    /\ Cardinality(InvocationsOf(i)) = max_attempts
    /\ \A e \in InvocationsOf(i) : e.outcome = "error"

\* C6: when the dispatcher is over, no write having been refused by the medium,
\* and every LLM attempt failed for some record, the job is completed and each
\* such record has exactly one result, a failure.
C6_FailuresStayPerRecord ==
    (DispatcherOver /\ writeFailures = 0 /\ \E i \in RecIdx : AllAttemptsFailed(i)) =>
        /\ Job(Val(jobId)).status = "COMPLETED"
        /\ \A i \in RecIdx :
              AllAttemptsFailed(i) =>
                  /\ Cardinality(ResultsAt(Job(Val(jobId)), i - 1)) = 1
                  /\ \A k \in ResultsAt(Job(Val(jobId)), i - 1) :
                        ~Job(Val(jobId)).results[k].success

\* C7: a record's LLM is invoked at most 1 + batch_record_retry_count times and
\* not again after an invocation that succeeded; a failure is recorded for it
\* only when all its invocations failed; a record with a successful invocation
\* has one result, a success.
C7_AttemptsStopAtSuccess ==
    \A i \in RecIdx :
        /\ Cardinality(InvocationsOf(i)) <= max_attempts
        /\ \A e, f \in InvocationsOf(i) : e.n < f.n => e.outcome # "ok"
        /\ (~restarted /\ IsSome(jobId) /\ records[i].notes # <<>>) =>
              LET job == Job(Val(jobId))
                  rs == ResultsAt(job, i - 1)
              IN /\ (\E k \in rs : ~job.results[k].success) => AllAttemptsFailed(i)
                 /\ (\E e \in InvocationsOf(i) : e.outcome = "ok") =>
                       \A k \in rs : job.results[k].success
                 /\ Cardinality(rs) <= 1

WellFormed(r) ==
    IF r.success THEN IsSome(r.response) /\ IsNone(r.error)
    ELSE IsNone(r.response) /\ IsSome(r.error)

\* C8: every result of every job in memory, appended by the dispatcher or
\* hydrated from the file or sqlite medium, is a success with a response and no
\* error or a failure with an error and no response.
C8_ResultsWellFormed ==
    \A j \in KnownJobs : \A k \in 1..Len(Job(j).results) : WellFormed(Job(j).results[k])

\* after a restart the job was hydrated from the medium with results in it
C8_Witness ==
    /\ restarted
    /\ \E j \in KnownJobs : Len(Job(j).results) > 0

\* C9: the record attempts between taking the semaphore and the end of their LLM
\* invocation are at most batch_max_concurrent_llm_calls.
C9_BoundedConcurrency == Cardinality(Holders) <= concurrency

\* every permit is held and a further record waits for one
C9_Witness ==
    /\ Cardinality(Holders) = concurrency
    /\ \E i \in RecIdx : pc[i] = "sem"

\* C10: when the dispatcher is over with every record carrying notes, every LLM
\* invocation having succeeded and no write refused by the medium, the job is
\* completed with completed_count = total_records.
C10_AllSucceedCompletes ==
    ( /\ DispatcherOver
      /\ writeFailures = 0
      /\ \A i \in RecIdx : records[i].notes # <<>>
      /\ \A e \in llmLog : e.outcome = "ok" ) =>
        /\ Job(Val(jobId)).status = "COMPLETED"
        /\ Job(Val(jobId)).completed_count = Job(Val(jobId)).total_records

\* C11: when the 202 response of the batch endpoint has been returned and the
\* background task has not begun, the job is in status accepted with no result
\* and zero counters, in memory and on the medium: set_processing and
\* append_result run only in the background task.
C11_AcceptedBeforeProcessing ==
    dpc = "accepted" =>
        /\ Job(Val(jobId)).status = "ACCEPTED"
        /\ Job(Val(jobId)).results = <<>>
        /\ Job(Val(jobId)).completed_count + Job(Val(jobId)).failed_count = 0
        /\ \A j \in StoredJobs : Stored(j).status = "ACCEPTED" /\ Stored(j).results = <<>>

\* the response has been returned, the job is persisted, the task has not begun
C11_Witness ==
    /\ dpc = "accepted"
    /\ IsSome(jobs[Val(jobId)])
    /\ StoredJobs # {}

\* the same mapping: the same keys, each with the same value, in any order
RECURSIVE SameItems(_, _)
SameValue(v, w) ==
    IF v.kind = "dict" /\ w.kind = "dict" THEN SameItems(v.items, w.items)
    ELSE v.kind = w.kind /\ v = w

SameItems(a, b) ==
    /\ Len(a) = Len(b)
    /\ \A i \in 1..Len(a) : \E j \in 1..Len(b) :
          a[i].key = b[j].key /\ SameValue(a[i].value, b[j].value)

\* the same notes, each as many times, in any order
SameNotes(m, n) ==
    /\ Len(m) = Len(n)
    /\ \A x \in {m[i] : i \in 1..Len(m)} \cup {n[i] : i \in 1..Len(n)} :
          Cardinality({i \in 1..Len(m) : m[i] = x}) = Cardinality({i \in 1..Len(n) : n[i] = x})

AbsentIsEmpty(sd) == IF IsNone(sd) THEN <<>> ELSE Val(sd)

SameCanonical(r1, r2) ==
    /\ SameItems(AbsentIsEmpty(r1.structured_data), AbsentIsEmpty(r2.structured_data))
    /\ SameNotes(r1.notes, r2.notes)

\* C12: with the cache enabled, right after set(r2, v) a get(r1) returns v for
\* every request r1 of the same canonical form as r2: the same structured_data
\* whatever the order of keys at any depth, absent structured_data being {},
\* and the same notes in any order.
C12_SameCanonicalSameEntry ==
    (cacheEnabled /\ returned # <<>> /\ returned[1].op = "set") =>
        \A r1 \in CacheRequests :
            SameCanonical(r1, returned[1].req) =>
                CacheGet(r1.structured_data, r1.notes) = returned[1].value

\* a get of a request written differently from the one set, of the same
\* canonical form with nested keys in another order, has returned the value
C12_Witness ==
    /\ cacheEnabled
    /\ returned # <<>>
    /\ returned[1].op = "get"
    /\ IsSome(returned[1].value)
    /\ Len(AbsentIsEmpty(returned[1].req.structured_data)) = 2
    /\ \A e \in cache : e.key # [structured_data |-> AbsentIsEmpty(returned[1].req.structured_data),
                                  notes |-> returned[1].req.notes]

AnalyzeCallsMade == 1..Len(returned)

\* call m of /analyze carries the request of the earlier call k, which was answered 200
Repeats(k, m) ==
    /\ k < m
    /\ returned[k].req = returned[m].req
    /\ returned[k].code = 200

\* a batch record of the fingerprint of req whose LLM invocation succeeded
FilledByBatch(req) ==
    {i \in RecIdx :
        /\ GenerateKey(records[i].structured_data, records[i].notes)
              = GenerateKey(req.structured_data, req.notes)
        /\ \E e \in InvocationsOf(i) : e.outcome = "ok"}

AnalysedRequests ==
    {records[i] : i \in {r \in RecIdx : \E e \in InvocationsOf(r) : e.outcome = "ok"}}
    \cup {returned[k].req :
             k \in {m \in AnalyzeCallsMade : returned[m].llm /\ returned[m].code = 200}}

\* a step in which an LLM invocation raised, or /analyze answered an error
FailedCallStep ==
    \/ \E e \in llmLog' : e.outcome = "error" /\ e \notin llmLog
    \/ /\ Len(returned') = Len(returned) + 1
       /\ returned'[Len(returned')].code # 200

\* C14: every cache entry holds the result of a successful analysis of a request
\* with the entry's fingerprint, and a step in which an LLM invocation fails (or
\* /analyze answers an error) leaves the cache unchanged.
C14_OnlySuccessCached ==
    /\ [](\A e \in cache : \E req \in AnalysedRequests :
             /\ e.key = GenerateKey(req.structured_data, req.notes)
             /\ e.value = AnalyzeResponse(req))
    /\ [][FailedCallStep => cache' = cache]_vars

\* a batch record's first invocation raised and its second filled the cache,
\* and an /analyze call was answered 500 while the entry stayed
C14_Witness ==
    /\ \E i \in RecIdx :
          /\ \E e \in InvocationsOf(i) : e.outcome = "error"
          /\ \E e \in InvocationsOf(i) : e.outcome = "ok"
          /\ \E c \in cache :
                c.key = GenerateKey(records[i].structured_data, records[i].notes)
    /\ \E k \in AnalyzeCallsMade : returned[k].code = 500
    /\ cache # {}

\* the store a fresh process has: nothing in memory, the same medium
FreshStore(st) == [st EXCEPT !.jobs = [j \in JobIds |-> None]]

\* C15: after every step the store of the configured backend and a memory store
\* given the same calls return equal get_status_response and list_jobs views.
\* The in-memory part of every operation is the same for all backends, so the
\* memory store given the same calls holds exactly jobs: its views are those
\* computed from jobs alone.  No write was refused by the medium.
C15_BackendsAgree ==
    writeFailures = 0 =>
        /\ list_jobs(Store, list_limit) = {list_jobs_memory(Store, list_limit)}
        /\ \A j \in JobIds :
              get_status_response(Store, j).view
                  = IF IsSome(jobs[j]) THEN Some(StatusView(Job(j))) ELSE None

\* C16: with the file or sqlite backend and no write refused by the medium, a
\* fresh store holding nothing in memory returns for every job the status view
\* the original store returns.
C16_RoundTrip ==
    (backend # "memory" /\ writeFailures = 0) =>
        \A j \in KnownJobs :
            get_status_response(FreshStore(Store), j).view
                = get_status_response(Store, j).view

\* C17: a job a fresh store can find stays findable by a fresh store, whatever
\* happens next: an operation, a stop of the process, a stop inside a write.
C17_PersistedStaysKnown ==
    [][\A j \in JobIds : IsSome(Load(disk, j)) => IsSome(Load(disk', j))]_vars

\* C18: a set_job_completed call on a job that is already completed, with no
\* write refused by the medium, leaves the job in memory (status, counters,
\* results, updated_at) and its persisted form as they were.
C18_CompletedTwiceUnchanged ==
    [][\A j \in KnownJobs :
          (/\ Job(j).status = "COMPLETED"
           /\ writeFailures = 0 /\ writeFailures' = 0
           /\ CallSetJobCompleted(j))
          => (jobs'[j] = jobs[j] /\ disk'[j] = disk[j])]_vars

\* the counters of job a are at most those of job b
CountsAtMost(a, b) ==
    /\ a.completed_count <= b.completed_count
    /\ a.failed_count <= b.failed_count
    /\ a.total_tokens_used <= b.total_tokens_used

\* C19: a job's completed_count, failed_count and total_tokens_used never
\* decrease: not from one step to the next while the job is in memory, and not,
\* no write having been refused by the medium, from what the process held when
\* it stopped to what get_job hydrates from the medium afterwards.
C19_CountersNeverDecrease ==
    /\ [][\A j \in JobIds :
            (IsSome(jobs[j]) /\ IsSome(jobs'[j])) => CountsAtMost(Val(jobs[j]), Val(jobs'[j]))]_vars
    /\ [](\A j \in KnownJobs :
            (IsSome(before[j]) /\ writeFailures = 0) => CountsAtMost(Val(before[j]), Job(j)))

\* the tokens a result stands for: those of its response's metadata when it is
\* a success and the metadata has them, else none
TokensOfResult(r) ==
    IF r.success /\ IsSome(r.response) /\ IsSome(Val(r.response).tokens_used)
    THEN Val(Val(r.response).tokens_used) ELSE 0

RECURSIVE SumTokens(_)
SumTokens(results) ==
    IF results = <<>> THEN 0
    ELSE TokensOfResult(Head(results)) + SumTokens(Tail(results))

\* C20: at every instant the total_tokens_used of a job equals the sum of the
\* tokens of its successful results (0 for a response whose metadata has no
\* tokens_used); failed results add nothing.
C20_TokensAreSumOfSuccesses ==
    \A j \in KnownJobs : Job(j).total_tokens_used = SumTokens(Job(j).results)

\* a job holding a failed result, a successful result with tokens, and a
\* non-zero total
C20_Witness ==
    \E j \in KnownJobs :
        /\ Job(j).total_tokens_used > 0
        /\ \E k \in DOMAIN Job(j).results : ~Job(j).results[k].success
        /\ \E k \in DOMAIN Job(j).results :
              Job(j).results[k].success /\ TokensOfResult(Job(j).results[k]) > 0

\* C21: a status poll of a job that is processing answers with every result
\* appended so far: the results field holds them all when there is at least
\* one, and is null when there is none.
C21_PollReturnsAppended ==
    \A j \in KnownJobs :
        Job(j).status = "PROCESSING" =>
            LET r == batch_status(Store, j)
            IN /\ r.code = 200
               /\ Val(r.body).results
                     = IF Len(Job(j).results) >= 1 THEN Some(Job(j).results) ELSE None

\* C22: progress_percent is 100 * (completed_count + failed_count) / total_records
\* rounded to two places (0.0 for no records), lies within 0..100, and is 100.0
\* exactly when completed_count + failed_count = total_records > 0.  In
\* hundredths of a percent.
C22_ProgressWithinRange ==
    \A j \in KnownJobs :
        LET job == Job(j)
            done == job.completed_count + job.failed_count
            p == Val(get_status_response(Store, j).view).progress_percent
        IN /\ job.total_records > 0 =>
                 /\ 2 * job.total_records * p <= 20000 * done + job.total_records
                 /\ 2 * job.total_records * p > 20000 * done - job.total_records
           /\ job.total_records = 0 => p = 0
           /\ p >= 0 /\ p <= 10000
           /\ p = 10000 <=> (done = job.total_records /\ job.total_records > 0)

\* an exception has left a record task of the running process
TaskRaised == ~restarted /\ \E i \in RecIdx : pc[i] = "raised"

\* C23: once an exception has left a record task the job is never completed,
\* and when _process_batch is over the job is failed and carries the message of
\* the first exception that reached gather.
C23_EscapedExceptionFailsJob ==
    TaskRaised =>
        /\ IsSome(gatherExc)
        /\ Job(Val(jobId)).status # "COMPLETED"
        /\ DispatcherOver =>
              /\ Job(Val(jobId)).status = "FAILED"
              /\ Job(Val(jobId)).failure_message = gatherExc

\* the exception of a record task was caught by _process_batch, which failed
\* the job, while the other record went on and appended its result
C23_Witness ==
    /\ TaskRaised /\ dpc = "done"
    /\ Job(Val(jobId)).status = "FAILED"
    /\ \E i \in RecIdx : pc[i] = "done"

\* the instants at which call k of returned has returned from acquire()
ReturnsOf(k) ==
    {e.at : e \in {g \in Grants : g.rec = returned[k].caller /\ g.n = returned[k].n}}

\* the first Rpm + 1 calls on the limiter were issued at one instant
BurstAtOnce ==
    /\ Len(returned) >= Rpm + 1
    /\ \A k \in 1..(Rpm + 1) : returned[k].issued = returned[1].issued

\* C24: of Rpm + 1 acquire() calls issued at one instant on an empty window, the
\* first Rpm return at that instant, and the last returns strictly later than
\* 60 seconds after the first returned.
C24_BurstWaitsAWindow ==
    BurstAtOnce =>
        /\ \A k \in 1..Rpm : ReturnsOf(k) = {returned[1].issued}
        /\ \A t \in ReturnsOf(Rpm + 1) : t > returned[1].issued + window_seconds

\* such a burst, the last call of which has returned
C24_Witness ==
    /\ BurstAtOnce
    /\ ReturnsOf(Rpm + 1) # {}
    /\ Rpm > 1

\* the step is a call, other than create_job, for a job id that is neither in
\* memory nor on the medium
CallOnUnknown(id) ==
    /\ IsFresh(Store, id)
    /\ Len(returned') = 1
    /\ returned'[1].id = id
    /\ returned'[1].op # "create_job"

\* C25: for a job id the store does not know, set_processing, append_result,
\* set_job_completed and set_job_failed leave memory and medium as they are and
\* report not-found, and the status poll answers 404.
C25_UnknownJobUntouched ==
    [][\A id \in JobIds :
          CallOnUnknown(id) =>
              /\ jobs' = jobs /\ disk' = disk /\ writeFailures' = writeFailures
              /\ ~returned'[1].found
              /\ returned'[1].op = "status" => returned'[1].code = 404]_vars

\* an append_result for an unknown job id reported not-found and left nothing
\* in memory or on the medium
C25_Witness ==
    /\ Len(returned) = 1
    /\ returned[1].op = "append_result"
    /\ ~returned[1].found
    /\ IsFresh(Store, returned[1].id)
    /\ backend = "file"

\* C26: with the cache disabled, whatever get, set and clear calls were made,
\* the cache holds nothing (a set has changed nothing), the last get returned a
\* miss, and a get of any request would miss.
C26_DisabledCacheIsInert ==
    ~cacheEnabled =>
        /\ cache = {}
        /\ (returned # <<>> /\ returned[1].op = "get") => IsNone(returned[1].value)
        /\ \A req \in CacheRequests : IsNone(CacheGet(req.structured_data, req.notes))

\* a set was just called on the disabled cache
C26_Witness ==
    /\ ~cacheEnabled
    /\ returned # <<>>
    /\ returned[1].op = "set"
    /\ IsSome(returned[1].value)

\* the limits asked for: one row, all rows, the default
ListLimits == {1, MaxJobs, list_limit}

\* the instant a job of the store was created
CreatedAt(j) == InstantOf(Job(j).created_at)

\* C27: every list list_jobs(limit) can return has at most limit rows, in
\* descending order of the jobs' creation time, and no job created with no
\* write refused is left out that was created later than a job in the list.
C27_ListMostRecentFirst ==
    writeFailures = 0 =>
        \A limit \in ListLimits : \A rows \in list_jobs(Store, limit) :
            /\ Len(rows) <= limit
            /\ \A a, b \in DOMAIN rows :
                  a < b => CreatedAt(rows[a].job_id) >= CreatedAt(rows[b].job_id)
            /\ \A j \in KnownJobs :
                  (\A k \in DOMAIN rows : rows[k].job_id # j) =>
                      \A k \in DOMAIN rows : CreatedAt(j) <= CreatedAt(rows[k].job_id)

\* no call is under way on any thread
AllCallsFinished == \A t \in RecIdx : pc[t] = "none"

\* what _persist of the in-memory job j puts on the medium
PersistedImage(j) == PersistTo(disk, j, Job(j), FALSE)[j]

\* C28: once the mutating calls of all threads have finished, with no write
\* refused and no restart, what the medium holds for each job is what a
\* persist of the in-memory job writes: never an older snapshot written last.
C28_LastWriteIsNewest ==
    (AllCallsFinished /\ ~restarted /\ writeFailures = 0) =>
        \A j \in KnownJobs : disk[j] = PersistedImage(j)

\* thread t ends a get_job that loaded job j from the medium
Hydrates(t, j) ==
    /\ pc[t] = "install" /\ pc'[t] = "none"
    /\ Val(held[t]).job_id = j

\* C29: a get_job that found the job absent and loaded it never replaces an
\* entry that is in memory for the job when it installs what it loaded.
C29_HydrationKeepsMemory ==
    [][\A t \in RecIdx, j \in JobIds :
         (Hydrates(t, j) /\ IsSome(jobs[j])) => jobs'[j] = jobs[j]]_vars

\* C30: during a batch run the job holds at most one result for each record
\* index, whether or not an append_result for it raised.
C30_OneResultPerIndex ==
    (~restarted /\ IsSome(jobId)) =>
        \A j \in KnownJobs : \A i \in RecIdx :
            Cardinality(ResultsAt(Job(j), i - 1)) <= 1

\* the job's status is completed or failed
IsTerminal(job) == job.status \in {"COMPLETED", "FAILED"}

\* the results and the counters of two states of a job are the same
SameOutcome(a, b) ==
    /\ a.results = b.results
    /\ a.completed_count = b.completed_count
    /\ a.failed_count = b.failed_count
    /\ a.total_tokens_used = b.total_tokens_used

\* C31: once a job in memory is completed or failed, no step changes its
\* results, completed_count, failed_count or total_tokens_used; record tasks
\* still running after the job was marked failed append nothing.
C31_TerminalJobFrozen ==
    [][\A j \in JobIds :
         (IsSome(jobs[j]) /\ IsSome(jobs'[j]) /\ IsTerminal(Val(jobs[j])))
            => SameOutcome(Val(jobs[j]), Val(jobs'[j]))]_vars

\* record i is inside an attempt: it waits for a permit, is in acquire(), or
\* its LLM invocation is under way
InAttempt(i) == pc[i] \in {"sem", "rate", "sleep", "llm"}

\* C32: the events of a record come in order.  Before its cache check a record
\* has no LLM invocation and no result; a record in acquire() or in its LLM
\* invocation holds a permit; the invocations of a record are numbered in the
\* order of its attempts; and a record inside an attempt has no result yet, so
\* no LLM invocation comes after its result append.
C32_EventsInOrder ==
    (~restarted /\ IsSome(jobId) /\ Val(jobId) \in KnownJobs) =>
        LET job == Job(Val(jobId))
        IN \A i \in RecIdx :
            /\ pc[i] \in {"none", "start"} =>
                  InvocationsOf(i) = {} /\ ResultsAt(job, i - 1) = {}
            /\ pc[i] # "none" => sem = concurrency - Cardinality(Holders)
            /\ \A e \in InvocationsOf(i) : e.limited /\ e.n <= attempt[i]
            /\ InAttempt(i) => ResultsAt(job, i - 1) = {}

\* the record task has ended: it returned, raised, or was cancelled
TaskOver(i) == pc[i] \in {"done", "raised", "cancelled"}

\* C33: the permits out are those of the attempts between "async with sem" and
\* the end of their LLM invocation, so an attempt that ended, by success, by an
\* error or by cancellation, holds none; when every record task has ended the
\* semaphore holds all its permits.
C33_PermitsReturned ==
    /\ (\E i \in RecIdx : pc[i] # "none") => sem = concurrency - Cardinality(Holders)
    /\ (\A i \in RecIdx : TaskOver(i)) => sem = concurrency

\* every task has ended, one LLM invocation having raised and one having been
\* cancelled
C33_Witness ==
    /\ \A i \in RecIdx : TaskOver(i)
    /\ \E e \in llmLog : e.outcome = "error"
    /\ \E e \in llmLog : e.outcome = "cancelled"
    /\ sem = concurrency

\* the calls of returned that were cancelled inside acquire()
CancelledCalls == {k \in DOMAIN returned : returned[k].op = "cancelled"}

\* the entries of the limiter's window that carry the instant t
StampsAt(t) == {k \in DOMAIN timestamps : timestamps[k] = t}

\* the returns of acquire() in the 60 seconds up to now
RecentGrants == {g \in Grants : g.at >= clock - window_seconds}

\* C34: a call cancelled inside acquire() never returned and left no timestamp:
\* every timestamp of the window is that of a call that returned, and while
\* fewer than Rpm calls returned in the last 60 seconds the next caller finds a
\* free slot.
C34_CancelLeavesWindow ==
    /\ \A k \in CancelledCalls : ReturnsOf(k) = {}
    /\ \A k \in DOMAIN timestamps :
          Cardinality(StampsAt(timestamps[k]))
             <= Cardinality({g \in Grants : g.at = timestamps[k]})
    /\ Cardinality(RecentGrants) < Rpm => HasSlot(Purge(timestamps, clock))

\* a call was cancelled and another caller's call returned after that call
\* was issued
C34_Witness ==
    \E k \in CancelledCalls : \E g \in Grants :
        g.rec # returned[k].caller /\ g.at > returned[k].issued

\* the canonical form of batch record i
KeyOf(i) == GenerateKey(records[i].structured_data, records[i].notes)

\* the successful LLM invocations made for the batch records of the canonical
\* form of record i
SuccessesLike(i) ==
    {e \in llmLog : /\ e.path = "batch"
                    /\ e.outcome = "ok"
                    /\ KeyOf(e.rec) = KeyOf(i)}

\* C35: with the cache enabled, the records of the batch that have one
\* canonical form cause at most one successful LLM invocation between them.
C35_OneInvocationPerForm ==
    cacheEnabled => \A i \in RecIdx : Cardinality(SuccessesLike(i)) <= 1

\* the results of job that are successes, and those that are failures
Successes(job) == {k \in 1..Len(job.results) : job.results[k].success}

Failures(job) == {k \in 1..Len(job.results) : ~job.results[k].success}

CountsMatchResults(job) ==
    /\ Cardinality(Successes(job)) = job.completed_count
    /\ Cardinality(Failures(job)) = job.failed_count
    /\ Len(job.results) = job.completed_count + job.failed_count

\* C36: every job in memory, and every job readable from the medium, has as
\* many success results as completed_count and as many failure results as
\* failed_count.
C36_CountsMatchResults ==
    /\ \A j \in KnownJobs : CountsMatchResults(Job(j))
    /\ \A j \in StoredJobs : CountsMatchResults(Stored(j))

\* a job in memory holds a success and a failure, and a snapshot with a
\* result is readable from the medium
C36_Witness ==
    /\ \E j \in KnownJobs : Successes(Job(j)) # {} /\ Failures(Job(j)) # {}
    /\ \E j \in StoredJobs : Len(Stored(j).results) > 0

\* the step is a store operation whose write the medium refused: _persist
\* raised OSError or sqlite3.Error
WriteRefused == writeFailures' = writeFailures + 1

\* C37: a mutating store operation that raises because the medium refused its
\* write leaves every job in memory as it was before the call.
C37_RefusedWriteRollsBack ==
    [][WriteRefused => jobs' = jobs]_vars

\* what the cache holds for batch record i
CachedFor(i) == CacheGet(records[i].structured_data, records[i].notes)

\* the step is the start of the task of record i, which carries notes and
\* finds its response in the cache
CacheHitStep(i) ==
    /\ pc[i] = "start" /\ pc'[i] # "start" /\ ~restarted'
    /\ records[i].notes # <<>>
    /\ IsSome(CachedFor(i))

\* the tokens a response carries, 0 when its metadata has none
TokensOf(resp) == IF IsSome(resp.tokens_used) THEN Val(resp.tokens_used) ELSE 0

\* C38: the task of a batch record that hits the cache appends one success
\* carrying the cached response, adds the cached tokens_used (0 when absent) to
\* total_tokens_used, and ends; it takes no permit, makes no acquire() and no
\* LLM invocation.
C38_CacheHitIsFree ==
    [][\A i \in RecIdx : CacheHitStep(i) =>
          LET old == Job(Val(jobId))
              new == Val(jobs'[Val(jobId)])
              hit == Val(CachedFor(i))
          IN /\ new.results = Append(old.results,
                                     BatchRecordResult(i - 1, TRUE, Some(hit), None))
             /\ new.completed_count = old.completed_count + 1
             /\ new.failed_count = old.failed_count
             /\ new.total_tokens_used = old.total_tokens_used + TokensOf(hit)
             /\ pc'[i] \in {"done", "raised"}
             /\ sem' = sem /\ timestamps' = timestamps /\ llmLog' = llmLog
             /\ InvocationsOf(i) = {}]_vars

\* every record task has ended on a cache hit, one of them on a response that
\* carries no tokens_used
C38_Witness ==
    /\ ~restarted /\ IsSome(jobId) /\ Val(jobId) \in KnownJobs
    /\ \A i \in RecIdx : pc[i] = "done" /\ InvocationsOf(i) = {}
    /\ \E k \in DOMAIN Job(Val(jobId)).results :
          /\ Job(Val(jobId)).results[k].success
          /\ IsNone(Val(Job(Val(jobId)).results[k].response).tokens_used)

\* the step is the start of the task of record i, whose notes are empty
EmptyNotesStep(i) ==
    /\ pc[i] = "start" /\ pc'[i] # "start" /\ ~restarted'
    /\ records[i].notes = <<>>

\* the /analyze calls answered so far
AnalyzeReplies == {k \in DOMAIN returned : returned[k].op = "analyze"}

\* C39: the task of a batch record without notes appends exactly one failure
\* with the error "At least one note is required" and ends, leaving the
\* cache, the semaphore, the limiter, the invocation log and the other record
\* tasks as they were; /analyze answers such a request, and no other, with 400
\* and without an LLM invocation or a change of the cache.
C39_EmptyNotesRejected ==
    /\ [](\A k \in AnalyzeReplies :
            /\ (returned[k].req.notes = <<>>) <=> (returned[k].code = 400)
            /\ returned[k].code = 400 => ~returned[k].llm /\ IsNone(returned[k].body))
    /\ [][\A i \in RecIdx : EmptyNotesStep(i) =>
            LET old == Job(Val(jobId))
                new == Val(jobs'[Val(jobId)])
            IN /\ new.results = Append(old.results,
                     BatchRecordResult(i - 1, FALSE, None, Some(NoNotesError)))
               /\ new.failed_count = old.failed_count + 1
               /\ new.completed_count = old.completed_count
               /\ new.total_tokens_used = old.total_tokens_used
               /\ pc'[i] \in {"done", "raised"}
               /\ InvocationsOf(i) = {}
               /\ cache' = cache /\ sem' = sem
               /\ timestamps' = timestamps /\ llmLog' = llmLog
               /\ \A k \in RecIdx \ {i} : pc'[k] = pc[k] /\ attempt'[k] = attempt[k]]_vars
    /\ [][(Len(returned') > Len(returned) /\ returned'[Len(returned')].code = 400)
            => cache' = cache /\ llmLog' = llmLog]_vars

\* the batch is completed with the failure of a record without notes and the
\* success of the other record, and /analyze has answered 400
C39_Witness ==
    /\ dpc = "done" /\ IsSome(jobId) /\ Val(jobId) \in KnownJobs
    /\ Job(Val(jobId)).status = "COMPLETED"
    /\ \E i, k \in RecIdx :
          /\ records[i].notes = <<>> /\ records[k].notes # <<>>
          /\ \E r \in ResultsAt(Job(Val(jobId)), i - 1) :
                Job(Val(jobId)).results[r].error = Some(NoNotesError)
          /\ \E r \in ResultsAt(Job(Val(jobId)), k - 1) : Job(Val(jobId)).results[r].success
    /\ \E k \in AnalyzeReplies : returned[k].code = 400

\* the call caller i is in has been marked cancelled by the step
CancelledNow(i) ==
    \E k \in DOMAIN returned' :
        /\ returned'[k].caller = i /\ returned'[k].n = attempt[i]
        /\ returned'[k].op = "cancelled"

\* C40: a caller inside acquire() eventually leaves it, and leaves it by the
\* return of acquire() unless it was cancelled (acquire() has no other way
\* out); a caller asleep while the window has a free slot has slept its time
\* and is let through at its next turn.
C40_AcquireReturns ==
    /\ \A i \in RecIdx : Waiting(i) ~> ~Waiting(i)
    /\ [][\A i \in RecIdx :
            (Waiting(i) /\ ~Waiting(i)') => (pc'[i] = "llm" \/ CancelledNow(i))]_vars
    /\ [](\A i \in RecIdx :
            (pc[i] = "sleep" /\ HasSlot(Purge(timestamps, clock))) => clock >= wake[i])

\* every call the callers can make has returned, one of them after it had to
\* wait, and none was cancelled
C40_Witness ==
    /\ Len(returned) = NumRecords * MaxAcquireCalls
    /\ CancelledCalls = {}
    /\ \A k \in DOMAIN returned : ReturnsOf(k) # {}
    /\ \E k \in DOMAIN returned : \E t \in ReturnsOf(k) : t > returned[k].issued

====
